---- MODULE Spec2Model ----
(***************************************************************************)
(* Membership-payment handlers of paypal-webhook-handler.                  *)
(*                                                                         *)
(* Two deployments of paypalWebhookHandler exist in the repository:        *)
(*   "http" : src/index.ts (HTTPS endpoint, one Firestore transaction for  *)
(*            the user update, the salesperson update and the sale record) *)
(*   "bus"  : src/index.js (Pub/Sub handler, plain user update followed by *)
(*            a transaction on the salesperson document only).             *)
(* resetMonthlyEarnings (src/index.ts) is the Monthly Rollover.            *)
(*                                                                         *)
(* The document store is modelled by the contract the handlers use:        *)
(* a transaction buffers its writes, commits them atomically, is re-run    *)
(* when a document it read was written by somebody else, and persists      *)
(* nothing when its body throws; a write batch commits atomically.         *)
(* Money is kept in cents (the code's floats are exact on these values).   *)
(***************************************************************************)
EXTENDS Integers, Sequences, FiniteSets, TLC

VARIABLES
    variant,   \* which paypalWebhookHandler is deployed: "http" | "bus"
    db,        \* the Firestore documents
    month,     \* the current period key (new Date().toISOString().substring(0,7))
    pc,        \* pc[i]: position of delivery i in the handler
    notif,     \* notif[i]: the request / message delivery i carries
    resp,      \* resp[i]: "none" | "200" | "405" | "500" (http) | "ack" | "nack" (bus)
    committed, \* committed[i]: the writes of delivery i's transaction were committed
    attempts,  \* attempts[i]: runs of the transaction body of delivery i
    conflict,  \* conflict[i]: a document read by i's running transaction was written since
    txUser,    \* txUser[i]: the user snapshot read by i's transaction
    txSp,      \* txSp[i]: the salesperson snapshot read by i's transaction
    txNow,     \* txNow[i]: the Date.now() the running handler read for the new expiry
    now,       \* the wall clock, in days
    intake,    \* intake[c]: call c of createPayPalOrder, its input, progress and result
    err,       \* err[i]: the exception the handler's catch block caught ("none" = none)
    rpc,       \* position of the rollover run: "idle" | "commit"
    rsnap,     \* the salespersons snapshot the rollover run read
    runs,      \* rollover runs finished, with their outcome
    report,    \* report[c]: reporting call c, its input, progress and result
    strictReads, \* the store client rejects a transaction read that follows a write
    failures,  \* store calls that have failed so far (counted where failures are bounded)
    txMonth,   \* txMonth[i]: the month key delivery i computed before its transaction (bus)
    resetAt    \* resetAt[s]: the number of sale records there were when a rollover last
               \* reset salesperson s (-1 = never), which archivedAt and the records'
               \* timestamps tell

vars == <<variant, db, month, pc, notif, resp, committed, attempts, conflict,
          txUser, txSp, txNow, now, intake, err, rpc, rsnap, runs, report,
          strictReads, failures, resetAt, txMonth>>

----------------------------------------------------------------------------
(* Bounds of the model *)

MaxDeliveries == 2
MaxAttempts == 2
MaxRollovers == 2
MaxTime == 2
MaxCalls == 2
MaxFailures == 1

Deliveries == 1..MaxDeliveries

----------------------------------------------------------------------------
(* The documents *)

Users == {"u1", "u2", "u3", "u4"}
SPs == {"s1", "s2"}
Months == {"2026-11", "2026-12", "2027-01"}
Years == {"2026", "2027"}

\* now.getFullYear().toString() of the month key's date
YearOf(m) == IF m = "2027-01" THEN "2027" ELSE "2026"

ZeroMap(S) == [k \in S |-> 0]

NoUser ==
    [exists |-> FALSE, salesperson |-> "", paymentStatus |-> "", paypalOrderId |-> "",
     amount |-> 0, currency |-> "", payerEmail |-> "", selectedTier |-> "",
     membershipExpiry |-> 0]

NoSp ==
    [exists |-> FALSE, currentMonthEarnings |-> 0, totalSales |-> 0,
     totalCommission |-> 0, monthlyCommission |-> ZeroMap(Months),
     yearlyCommission |-> ZeroMap(Years)]

NoHist == [exists |-> FALSE, earnings |-> 0, totalCustomers |-> 0]

\* u1 sells for s1 (no salesperson document yet), u2 for s2 (document exists),
\* u3 has no salesperson, u4 has no user document. u2's membership from an earlier
\* payment has not expired yet.
InitUser(u) ==
    CASE u = "u1" -> [NoUser EXCEPT !.exists = TRUE, !.salesperson = "s1", !.paymentStatus = "pending"]
      [] u = "u2" -> [NoUser EXCEPT !.exists = TRUE, !.salesperson = "s2", !.paymentStatus = "pending",
                                    !.membershipExpiry = 10]
      [] u = "u3" -> [NoUser EXCEPT !.exists = TRUE, !.paymentStatus = "pending"]
      [] OTHER -> NoUser

InitSp(v, s) ==
    IF s = "s2"
    THEN IF v = "http"
         THEN [NoSp EXCEPT !.exists = TRUE, !.currentMonthEarnings = 1000, !.totalSales = 1]
         ELSE [NoSp EXCEPT !.exists = TRUE, !.totalCommission = 500,
                           !.monthlyCommission = [ZeroMap(Months) EXCEPT !["2026-11"] = 500],
                           !.yearlyCommission = [ZeroMap(Years) EXCEPT !["2026"] = 500]]
    ELSE NoSp

\* The documents of salespersons/{id}/sales, which the reports query and no function
\* writes: what the store of the bus deployment holds of them is given.
InitSpSales(v) ==
    IF v = "bus"
    THEN {[salesperson |-> "s2", id |-> "x1", orderId |-> "o91", saleMonth |-> "2026-11", saleYear |-> "2026",
           commissionAmount |-> 300],
          [salesperson |-> "s2", id |-> "x2", orderId |-> "o92", saleMonth |-> "2026-11", saleYear |-> "2026",
           commissionAmount |-> 200],
          [salesperson |-> "s2", id |-> "x3", orderId |-> "o93", saleMonth |-> "2025-12", saleYear |-> "2025",
           commissionAmount |-> 100]}
    ELSE {}

\* sales, historical, spSales and monthlyPayouts are the subcollections individualSales,
\* historicalPayouts, sales and monthlyPayouts (the months that have a document).
InitDb(v) ==
    [users |-> [u \in Users |-> InitUser(u)],
     salespersons |-> [s \in SPs |-> InitSp(v, s)],
     sales |-> <<>>,
     historical |-> [s \in SPs |-> [m \in Months |-> NoHist]],
     spSales |-> InitSpSales(v),
     monthlyPayouts |-> [s \in SPs |-> {}]]

----------------------------------------------------------------------------
(* Requests and messages *)

EventTypes ==
    {"CHECKOUT.ORDER.COMPLETED", "CHECKOUT.ORDER.APPROVED", "PAYMENT.CAPTURE.COMPLETED",
     "PAYMENT.CAPTURE.DENIED", "BILLING.SUBSCRIPTION.CANCELLED",
     "BILLING.SUBSCRIPTION.EXPIRED", "CUSTOMER.DISPUTE.CREATED"}

\* A completed payment of order o1 by u1, as PayPal posts it to the http endpoint.
HttpBase ==
    [method |-> "POST", body |-> TRUE, type |-> "CHECKOUT.ORDER.APPROVED", resource |-> TRUE,
     units |-> TRUE, payer |-> TRUE, email |-> "a@x", reference_id |-> "u1",
     custom_id |-> <<>>, description |-> "", amount |-> 10000, currency |-> "USD",
     status |-> "APPROVED", id |-> "o1", data |-> "json"]

NoRequest == [HttpBase EXCEPT !.method = "", !.body = FALSE, !.type = "", !.resource = FALSE,
                              !.units = FALSE, !.payer = FALSE, !.email = "",
                              !.reference_id = "", !.amount = 0, !.currency = "",
                              !.status = "", !.id = ""]

HttpPaid ==
    {HttpBase,
     [HttpBase EXCEPT !.id = "o2", !.amount = 5000, !.currency = "ZAR", !.email = "b@x"],
     [HttpBase EXCEPT !.type = "CHECKOUT.ORDER.COMPLETED", !.status = "COMPLETED"],
     [HttpBase EXCEPT !.type = "PAYMENT.CAPTURE.COMPLETED", !.status = "COMPLETED"],
     [HttpBase EXCEPT !.reference_id = "u2", !.id = "o3"],
     [HttpBase EXCEPT !.reference_id = "u3", !.id = "o4"],
     [HttpBase EXCEPT !.reference_id = "u4", !.id = "o5"],
     [HttpBase EXCEPT !.reference_id = "", !.custom_id = <<"u1">>, !.id = "o6"],
     [HttpBase EXCEPT !.id = "o8", !.amount = 0]}

HttpOther ==
    {[HttpBase EXCEPT !.type = "PAYMENT.CAPTURE.DENIED", !.status = "DECLINED"],
     [HttpBase EXCEPT !.type = "BILLING.SUBSCRIPTION.CANCELLED", !.status = "CANCELLED"],
     [HttpBase EXCEPT !.type = "BILLING.SUBSCRIPTION.EXPIRED", !.status = "EXPIRED"],
     [HttpBase EXCEPT !.type = "CUSTOMER.DISPUTE.CREATED"]}

HttpMalformed ==
    {[HttpBase EXCEPT !.resource = FALSE, !.units = FALSE, !.payer = FALSE, !.email = "",
                      !.reference_id = "", !.amount = 0, !.currency = "", !.status = "",
                      !.id = ""],
     [HttpBase EXCEPT !.units = FALSE, !.reference_id = "", !.amount = 0, !.currency = ""],
     [NoRequest EXCEPT !.method = "POST"],
     [HttpBase EXCEPT !.reference_id = ""],
     [HttpBase EXCEPT !.status = "PENDING"],
     [HttpBase EXCEPT !.method = "GET"]}

HttpRequests == HttpPaid \cup HttpOther \cup HttpMalformed

\* The same payment as the bus deployment receives it: custom_id "u1_s1" (a sequence of
\* tokens, "_" being the separator character), description = the tier id.
BusBase ==
    [HttpBase EXCEPT !.reference_id = "", !.custom_id = <<"u1", "_", "s1">>,
                     !.description = "sadc"]

BusPaid ==
    {BusBase,
     [BusBase EXCEPT !.id = "o2", !.amount = 5000, !.currency = "ZAR", !.email = "b@x",
                     !.description = "local"],
     [BusBase EXCEPT !.custom_id = <<"u2", "_", "s2">>, !.id = "o3", !.amount = 5000,
                     !.description = "local"],
     [BusBase EXCEPT !.custom_id = <<"u4", "_", "s1">>, !.id = "o5"],
     [BusBase EXCEPT !.custom_id = <<"u1", "_", "s1", "_", "x">>, !.id = "o6"],
     [BusBase EXCEPT !.description = "platinum", !.id = "o7"]}

BusOther ==
    {[BusBase EXCEPT !.type = "PAYMENT.CAPTURE.COMPLETED", !.status = "COMPLETED"],
     [BusBase EXCEPT !.type = "CHECKOUT.ORDER.COMPLETED", !.status = "COMPLETED"],
     [BusBase EXCEPT !.type = "PAYMENT.CAPTURE.DENIED", !.status = "DECLINED"],
     [BusBase EXCEPT !.type = "BILLING.SUBSCRIPTION.CANCELLED", !.status = "CANCELLED"],
     [BusBase EXCEPT !.type = "CUSTOMER.DISPUTE.CREATED"]}

BusMalformed ==
    {[BusBase EXCEPT !.resource = FALSE, !.units = FALSE, !.payer = FALSE, !.email = "",
                     !.custom_id = <<>>, !.description = "", !.amount = 0, !.currency = "",
                     !.status = "", !.id = ""],
     [BusBase EXCEPT !.units = FALSE, !.custom_id = <<>>, !.description = "", !.amount = 0,
                     !.currency = ""],
     [BusBase EXCEPT !.custom_id = <<"u3">>],
     [BusBase EXCEPT !.custom_id = <<>>],
     [BusBase EXCEPT !.description = ""],
     [BusBase EXCEPT !.custom_id = <<"u1">>],
     [BusBase EXCEPT !.custom_id = <<"u1", "_">>],
     [BusBase EXCEPT !.custom_id = <<"_", "s1">>],
     [BusBase EXCEPT !.data = "garbage"],
     [NoRequest EXCEPT !.data = "none"]}

BusMessages == BusPaid \cup BusOther \cup BusMalformed

----------------------------------------------------------------------------
(* Helpers on the store *)

UserDoc(d, u) == IF u \in Users THEN d.users[u] ELSE NoUser

SpDoc(d, s) == IF s \in SPs THEN d.salespersons[s] ELSE NoSp

MutatingHttp ==
    {"CHECKOUT.ORDER.COMPLETED", "CHECKOUT.ORDER.APPROVED", "PAYMENT.CAPTURE.COMPLETED"}

LoggedOnlyHttp ==
    {"PAYMENT.CAPTURE.DENIED", "BILLING.SUBSCRIPTION.CANCELLED", "BILLING.SUBSCRIPTION.EXPIRED"}

\* resource.purchase_units?.[0]?.reference_id || resource.purchase_units?.[0]?.custom_id
\* (the http deployment uses the custom_id as a whole; here it is one token or nothing)
HttpUserId(n) ==
    IF ~n.units THEN ""
    ELSE IF n.reference_id # "" THEN n.reference_id
    ELSE IF Len(n.custom_id) = 1 THEN n.custom_id[1]
    ELSE ""

CommissionRateHttp == 20

\* A slip of the rate: the 10% of the bus deployment.
HttpCommissionEarnedTenPercent(n) == (n.amount * 10) \div 100

\* grossAmount * commissionRate, the rate in percent and the amount in cents
HttpCommissionEarned(n) == (n.amount * CommissionRateHttp) \div 100

----------------------------------------------------------------------------
(* paypalWebhookHandler, http deployment (src/index.ts) *)

\* What the handler does with a request before it touches the store:
\* "405", "200" = answer at once, "throw" = a TypeError reaches the catch block,
\* "uncaught" = a TypeError leaves the handler, "tx" = run the reconciliation transaction.
\* A slip of the switch: the capture-denied case falls through to the payment cases.
HttpDispatchDeniedFallsThrough(n) ==
    IF n.method # "POST" THEN "405"
    ELSE IF ~n.body THEN "uncaught"
    ELSE IF n.type \in MutatingHttp \cup LoggedOnlyHttp /\ ~n.resource THEN "throw"
    ELSE IF n.type \in MutatingHttp \cup {"PAYMENT.CAPTURE.DENIED"}
         THEN IF HttpUserId(n) # "" THEN "tx" ELSE "200"
    ELSE "200"

HttpDispatch(n) ==
    IF n.method # "POST" THEN "405"
    ELSE IF ~n.body THEN "uncaught"      \* req.body.event_type throws before the try
    ELSE IF n.type \in MutatingHttp
         THEN IF ~n.resource THEN "throw"    \* resource.id throws inside the try
              ELSE IF HttpUserId(n) # "" /\ n.status \in {"COMPLETED", "APPROVED"}
                   THEN "tx"
                   ELSE "200"
    ELSE IF n.type \in LoggedOnlyHttp
         THEN IF ~n.resource THEN "throw"    \* resource.id throws inside the try
              ELSE "200"
    ELSE "200"

FourteenDays == 14

\* A slip of the expiry: the 14 days are added to the expiry stored before.
HttpUserUpdateExtendsExpiry(d, n, t) ==
    [d EXCEPT !.users[HttpUserId(n)] =
        [@ EXCEPT !.paymentStatus = "paid", !.membershipExpiry = @ + FourteenDays,
                  !.paypalOrderId = n.id, !.payerEmail = n.email, !.amount = n.amount,
                  !.currency = n.currency]]

\* transaction.update(userRef, {...}), t being the Date.now() the body read
HttpUserUpdate(d, n, t) ==
    [d EXCEPT !.users[HttpUserId(n)] =
        [@ EXCEPT !.paymentStatus = "paid", !.membershipExpiry = t + FourteenDays,
                  !.paypalOrderId = n.id, !.payerEmail = n.email, !.amount = n.amount,
                  !.currency = n.currency]]

\* A slip of the create path: the record is set anew whether or not it exists.
HttpSpWriteAlwaysCreates(d, s, spSnap, c) ==
    [d EXCEPT !.salespersons[s] =
        [NoSp EXCEPT !.exists = TRUE, !.currentMonthEarnings = c, !.totalSales = 1]]

\* A slip of the update path: the sale is not counted.
HttpSpWriteEarningsOnly(d, s, spSnap, c) ==
    IF spSnap.exists
    THEN [d EXCEPT !.salespersons[s] = [@ EXCEPT !.currentMonthEarnings = @ + c]]
    ELSE [d EXCEPT !.salespersons[s] =
            [NoSp EXCEPT !.exists = TRUE, !.currentMonthEarnings = c, !.totalSales = 1]]

\* transaction.update(salespersonRef, increments) / transaction.set(salespersonRef, {...})
HttpSpWrite(d, s, spSnap, c) ==
    IF spSnap.exists
    THEN [d EXCEPT !.salespersons[s] =
            [@ EXCEPT !.currentMonthEarnings = @ + c, !.totalSales = @ + 1]]
    ELSE [d EXCEPT !.salespersons[s] =
            [NoSp EXCEPT !.exists = TRUE, !.currentMonthEarnings = c, !.totalSales = 1]]

\* A sale record written under a fixed document id: it replaces the record before it.
HttpSaleWriteFixedId(d, s, n, m) ==
    LET rec == [sp |-> s, month |-> m, userId |-> HttpUserId(n), orderId |-> n.id,
                amount |-> n.amount, commission |-> HttpCommissionEarned(n)]
    IN  [d EXCEPT !.sales = IF @ = <<>> THEN <<rec>> ELSE [@ EXCEPT ![Len(@)] = rec]]

\* transaction.set(individualSaleRef, {...}) under monthlyPayouts/<m>/individualSales
HttpSaleWrite(d, s, n, m) ==
    [d EXCEPT !.sales = Append(@,
        [sp |-> s, month |-> m, userId |-> HttpUserId(n), orderId |-> n.id,
         amount |-> n.amount, commission |-> HttpCommissionEarned(n)])]

\* A duplicate-order guard the handler does not have: a notification whose order id the
\* user record already carries is skipped.
HttpWritesSkipDuplicate(d, n, userSnap, spSnap, m, t) ==
    IF userSnap.paypalOrderId = n.id THEN d
    ELSE LET s == userSnap.salesperson
             d1 == HttpUserUpdate(d, n, t)
         IN  IF s # ""
             THEN HttpSaleWrite(HttpSpWrite(d1, s, spSnap, HttpCommissionEarned(n)), s, n, m)
             ELSE d1

\* All writes of one run of the transaction body, as the commit applies them.
HttpWrites(d, n, userSnap, spSnap, m, t) ==
    LET s == userSnap.salesperson
        d1 == HttpUserUpdate(d, n, t)
    IN  IF s # ""
        THEN HttpSaleWrite(HttpSpWrite(d1, s, spSnap, HttpCommissionEarned(n)), s, n, m)
        ELSE d1

----------------------------------------------------------------------------
(* paypalWebhookHandler, bus deployment (src/index.js): pure parts *)

Range(q) == {q[k] : k \in 1..Len(q)}

\* customId.split('_'): the parts between the separators, each a sequence of tokens
RECURSIVE Split(_)
Split(q) ==
    IF "_" \notin Range(q) THEN <<q>>
    ELSE LET k == CHOOSE j \in 1..Len(q) : q[j] = "_" /\ \A h \in 1..(j - 1) : q[h] # "_"
         IN  <<SubSeq(q, 1, k - 1)>> \o Split(SubSeq(q, k + 1, Len(q)))

\* A part as a string: an id is one token, the empty part is the empty string.
PartString(p) == IF Len(p) = 1 THEN p[1] ELSE ""

\* const [userId, salespersonId] = customId.split('_');
BusUserId(n) == PartString(Split(n.custom_id)[1])

BusSalespersonId(n) ==
    IF Len(Split(n.custom_id)) >= 2 THEN PartString(Split(n.custom_id)[2]) ELSE ""

\* paymentTiers[selectedTierId]?.price, 0 standing for undefined
TierPrice(tier) ==
    CASE tier = "local" -> 50
      [] tier = "sadc" -> 100
      [] tier = "global" -> 380
      [] OTHER -> 0

CommissionRateBus == 10

\* parseFloat(amountValue) * commissionRate
BusCommissionAmount(n) == (n.amount * CommissionRateBus) \div 100

\* A slip of the parse: the fields are taken from the message without parsing its data.
BusDispatchUnparsed(n) ==
    IF n.type = "CHECKOUT.ORDER.APPROVED"
    THEN IF ~n.resource \/ ~n.units \/ ~n.payer THEN "throw"
         ELSE IF n.custom_id = <<>> \/ n.description = "" THEN "ack"
         ELSE IF BusUserId(n) = "" \/ BusSalespersonId(n) = "" THEN "ack"
         ELSE "update"
    ELSE "ack"

\* What the handler does with a message before it touches the store:
\* "update" = go on to the user update, "ack" = return, "throw" = an error reaches the
\* catch block. The payload is JSON.parse of the message data, '{}' when there is none;
\* data that is no JSON makes the parse throw.
BusDispatch(n) ==
    IF n.data = "garbage" THEN "throw"
    ELSE LET payload == IF n.data = "none" THEN [NoRequest EXCEPT !.data = "none"] ELSE n IN
         IF payload.type = "CHECKOUT.ORDER.APPROVED"
         THEN IF ~payload.resource \/ ~payload.units \/ ~payload.payer THEN "throw"
              ELSE IF payload.custom_id = <<>> \/ payload.description = "" THEN "ack"
              ELSE IF BusUserId(payload) = "" \/ BusSalespersonId(payload) = "" THEN "ack"
              ELSE "update"
         ELSE "ack"

\* await userDocRef.update({...}), t being Date.now(); the payer's email is not written
BusUserWrite(d, n, t) ==
    [d EXCEPT !.users[BusUserId(n)] =
        [@ EXCEPT !.paymentStatus = "paid", !.membershipExpiry = t + FourteenDays,
                  !.amount = n.amount, !.currency = n.currency, !.paypalOrderId = n.id,
                  !.selectedTier = n.description]]

\* transaction.set(salespersonDocRef, {...}) / transaction.update(salespersonDocRef, {...}):
\* the new totals are computed from the snapshot the transaction read.
\* A slip of the update path: the year's entry is not updated.
BusSpWriteNoYearly(d, s, spSnap, c, m) ==
    IF ~spSnap.exists
    THEN [d EXCEPT !.salespersons[s] =
            [NoSp EXCEPT !.exists = TRUE, !.totalCommission = c,
                         !.monthlyCommission = [ZeroMap(Months) EXCEPT ![m] = c],
                         !.yearlyCommission = [ZeroMap(Years) EXCEPT ![YearOf(m)] = c]]]
    ELSE [d EXCEPT !.salespersons[s] =
            [@ EXCEPT !.totalCommission = spSnap.totalCommission + c,
                      !.monthlyCommission[m] = spSnap.monthlyCommission[m] + c]]

BusSpWrite(d, s, spSnap, c, m) ==
    IF ~spSnap.exists
    THEN [d EXCEPT !.salespersons[s] =
            [NoSp EXCEPT !.exists = TRUE, !.totalCommission = c,
                         !.monthlyCommission = [ZeroMap(Months) EXCEPT ![m] = c],
                         !.yearlyCommission = [ZeroMap(Years) EXCEPT ![YearOf(m)] = c]]]
    ELSE [d EXCEPT !.salespersons[s] =
            [@ EXCEPT !.totalCommission = spSnap.totalCommission + c,
                      !.monthlyCommission[m] = spSnap.monthlyCommission[m] + c,
                      !.yearlyCommission[YearOf(m)] = spSnap.yearlyCommission[YearOf(m)] + c]]

----------------------------------------------------------------------------
(* The store's transactions *)

\* The salesperson document a delivery's transaction works on ("" = none).
SpOf(i) ==
    IF variant = "http" THEN txUser[i].salesperson ELSE BusSalespersonId(notif[i])

\* Delivery i's running transaction has read user document u / salesperson document s.
ReadsUser(i, u) ==
    variant = "http" /\ pc[i] \in {"txGetSp", "txCommit"} /\ HttpUserId(notif[i]) = u

ReadsSp(i, s) == pc[i] = "txCommit" /\ s # "" /\ SpOf(i) = s

\* The store's conflict detection: a commit by j that writes user u and the salesperson
\* documents in S invalidates every other running transaction that read one of them.
Invalidate(j, u, S) ==
    [i \in Deliveries |->
        IF i # j /\ (ReadsUser(i, u) \/ \E s \in S : ReadsSp(i, s)) THEN TRUE ELSE conflict[i]]

\* A store without conflict detection.
NeverConflicted(i) == FALSE

Conflicted(i) == conflict[i]

\* A catch block that swallows the exception and acknowledges.
HttpCatchAnswers200(i) == "200"

\* catch (error) { res.status(500).send(...) }
HttpCatch(i) == "500"

\* catch (err) { throw new Error(...) }: the message is not acknowledged
BusCatch(i) == "nack"

\* The handler returns: the invocation's transaction state is gone.
Finish(i, r, e) ==
    /\ pc' = [pc EXCEPT ![i] = "done"]
    /\ resp' = [resp EXCEPT ![i] = r]
    /\ err' = [err EXCEPT ![i] = e]
    /\ txUser' = [txUser EXCEPT ![i] = NoUser]
    /\ txSp' = [txSp EXCEPT ![i] = NoSp]
    /\ txNow' = [txNow EXCEPT ![i] = 0]

\* Deliveries are taken in index order (the index is only a name).
NextFree(i) == pc[i] = "idle" /\ \A j \in Deliveries : j < i => pc[j] # "idle"

envVars == <<variant, month, now, intake, report, strictReads, failures, txMonth>>
rollVars == <<rpc, rsnap, runs, resetAt>>

----------------------------------------------------------------------------
(* paypalWebhookHandler, http deployment (src/index.ts): steps *)

HttpReceiveFrom(i, requests) ==
    /\ variant = "http"
    /\ NextFree(i)
    /\ \E n \in requests :
        /\ notif' = [notif EXCEPT ![i] = n]
        /\ IF HttpDispatch(n) = "tx"
           THEN /\ pc' = [pc EXCEPT ![i] = "txGetUser"]
                /\ attempts' = [attempts EXCEPT ![i] = 1]
                /\ UNCHANGED <<resp, txUser, txNow, txSp, err>>
           ELSE /\ IF HttpDispatch(n) = "throw"
                   THEN Finish(i, HttpCatch(i), "TypeError")
                   ELSE IF HttpDispatch(n) = "uncaught"
                   THEN Finish(i, "none", "TypeError")
                   ELSE Finish(i, HttpDispatch(n), "none")
                /\ UNCHANGED attempts
    /\ UNCHANGED <<envVars, rollVars, db, committed, conflict>>

HttpReceive(i) == HttpReceiveFrom(i, HttpRequests)

\* const userDoc = await transaction.get(userRef); if (!userDoc.exists) return;
HttpTxGetUser(i) ==
    /\ variant = "http"
    /\ pc[i] = "txGetUser"
    /\ LET doc == UserDoc(db, HttpUserId(notif[i]))
       IN  IF ~doc.exists
           THEN Finish(i, "200", "none")
           ELSE /\ txUser' = [txUser EXCEPT ![i] = doc]
                /\ txNow' = [txNow EXCEPT ![i] = now]
                /\ pc' = [pc EXCEPT ![i] = IF doc.salesperson # "" THEN "txGetSp" ELSE "txCommit"]
                /\ UNCHANGED <<resp, txSp, err>>
    /\ UNCHANGED <<envVars, rollVars, db, notif, committed, attempts, conflict>>

\* const spDoc = await transaction.get(salespersonRef); the read follows the buffered
\* user update, which a client that enforces reads before writes rejects
\* (HttpReadAfterWrite; elsewhere the rejection is one of the errors of HttpStoreError).
HttpTxGetSp(i) ==
    /\ variant = "http"
    /\ pc[i] = "txGetSp"
    /\ ~strictReads
    /\ txSp' = [txSp EXCEPT ![i] = SpDoc(db, txUser[i].salesperson)]
    /\ pc' = [pc EXCEPT ![i] = "txCommit"]
    /\ UNCHANGED <<envVars, rollVars, db, notif, resp, committed, attempts, conflict, txUser, txNow, err>>

\* A slip of the retry: the writes of the abandoned run of the body are kept.
HttpTxCommitKeepsAttempt(i) ==
    /\ variant = "http"
    /\ pc[i] = "txCommit"
    /\ IF ~Conflicted(i)
       THEN /\ db' = HttpWrites(db, notif[i], txUser[i], txSp[i], month, txNow[i])
            /\ committed' = [committed EXCEPT ![i] = TRUE]
            /\ conflict' = Invalidate(i, HttpUserId(notif[i]), {txUser[i].salesperson})
            /\ Finish(i, "200", "none")
            /\ UNCHANGED attempts
       ELSE IF attempts[i] < MaxAttempts
       THEN /\ pc' = [pc EXCEPT ![i] = "txGetUser"]
            /\ attempts' = [attempts EXCEPT ![i] = @ + 1]
            /\ conflict' = [conflict EXCEPT ![i] = FALSE]
            /\ txUser' = [txUser EXCEPT ![i] = NoUser]
            /\ txSp' = [txSp EXCEPT ![i] = NoSp]
            /\ txNow' = [txNow EXCEPT ![i] = 0]
            /\ db' = HttpWrites(db, notif[i], txUser[i], txSp[i], month, txNow[i])
            /\ UNCHANGED <<committed, resp, err>>
       ELSE /\ Finish(i, HttpCatch(i), "ABORTED")
            /\ conflict' = [conflict EXCEPT ![i] = FALSE]
            /\ UNCHANGED <<db, committed, attempts>>
    /\ UNCHANGED <<envVars, rollVars, notif>>

\* The commit of db.runTransaction: apply the buffered writes, or run the body again
\* when a document read was written meanwhile, or give up after MaxAttempts runs.
HttpTxCommit(i) ==
    /\ variant = "http"
    /\ pc[i] = "txCommit"
    /\ IF ~Conflicted(i)
       THEN /\ db' = HttpWrites(db, notif[i], txUser[i], txSp[i], month, txNow[i])
            /\ committed' = [committed EXCEPT ![i] = TRUE]
            /\ conflict' = Invalidate(i, HttpUserId(notif[i]), {txUser[i].salesperson})
            /\ Finish(i, "200", "none")
            /\ UNCHANGED attempts
       ELSE IF attempts[i] < MaxAttempts
       THEN /\ pc' = [pc EXCEPT ![i] = "txGetUser"]
            /\ attempts' = [attempts EXCEPT ![i] = @ + 1]
            /\ conflict' = [conflict EXCEPT ![i] = FALSE]
            /\ txUser' = [txUser EXCEPT ![i] = NoUser]
            /\ txSp' = [txSp EXCEPT ![i] = NoSp]
            /\ txNow' = [txNow EXCEPT ![i] = 0]
            /\ UNCHANGED <<db, committed, resp, err>>
       ELSE /\ Finish(i, HttpCatch(i), "ABORTED")
            /\ conflict' = [conflict EXCEPT ![i] = FALSE]
            /\ UNCHANGED <<db, committed, attempts>>
    /\ UNCHANGED <<envVars, rollVars, notif>>

\* A store call of the transaction throws: nothing is committed, the catch answers 500.
HttpStoreError(i) ==
    /\ variant = "http"
    /\ pc[i] \in {"txGetUser", "txGetSp", "txCommit"}
    /\ Finish(i, HttpCatch(i), "UNAVAILABLE")
    /\ conflict' = [conflict EXCEPT ![i] = FALSE]
    /\ UNCHANGED <<envVars, rollVars, db, notif, committed, attempts>>

----------------------------------------------------------------------------
(* paypalWebhookHandler, bus deployment (src/index.js): steps *)

\* The handler runs without awaiting up to userDocRef.update: the Date.now() of the new
\* expiry is read in the same step as the message.
BusReceiveFrom(i, messages) ==
    /\ variant = "bus"
    /\ NextFree(i)
    /\ \E n \in messages :
        /\ notif' = [notif EXCEPT ![i] = n]
        /\ IF BusDispatch(n) = "update"
           THEN /\ pc' = [pc EXCEPT ![i] = "userUpdate"]
                /\ txNow' = [txNow EXCEPT ![i] = now]
                /\ UNCHANGED <<resp, txUser, txSp, err>>
           ELSE IF BusDispatch(n) = "throw"
                THEN Finish(i, BusCatch(i),
                            IF n.data = "garbage" THEN "SyntaxError" ELSE "TypeError")
                ELSE Finish(i, BusDispatch(n), "none")
    /\ UNCHANGED <<envVars, rollVars, db, committed, attempts, conflict>>

BusReceive(i) == BusReceiveFrom(i, BusMessages)

\* await userDocRef.update({...}) outside any transaction: it throws when the user
\* document does not exist; then the tier check, which returns when the tier is unknown.
BusUserUpdate(i) ==
    /\ variant = "bus"
    /\ pc[i] = "userUpdate"
    /\ IF ~UserDoc(db, BusUserId(notif[i])).exists
       THEN /\ Finish(i, BusCatch(i), "NOT_FOUND")
            /\ UNCHANGED <<db, attempts, txMonth>>
       ELSE /\ db' = BusUserWrite(db, notif[i], txNow[i])
            /\ IF TierPrice(notif[i].description) = 0
               THEN /\ Finish(i, "ack", "none")
                    /\ UNCHANGED <<attempts, txMonth>>
               ELSE /\ pc' = [pc EXCEPT ![i] = "txGetSp"]
                    /\ attempts' = [attempts EXCEPT ![i] = 1]
                    /\ txMonth' = [txMonth EXCEPT ![i] = month]
                    /\ UNCHANGED <<resp, txUser, txNow, txSp, err>>
    /\ UNCHANGED <<variant, month, now, intake, report, strictReads, failures, rollVars, notif,
                   committed, conflict>>

\* const salespersonDoc = await transaction.get(salespersonDocRef);
BusTxGetSp(i) ==
    /\ variant = "bus"
    /\ pc[i] = "txGetSp"
    /\ txSp' = [txSp EXCEPT ![i] = SpDoc(db, BusSalespersonId(notif[i]))]
    /\ pc' = [pc EXCEPT ![i] = "txCommit"]
    /\ UNCHANGED <<envVars, rollVars, db, notif, resp, committed, attempts, conflict, txUser, txNow, err>>

\* The commit of db.runTransaction (salesperson document only).
BusTxCommit(i) ==
    /\ variant = "bus"
    /\ pc[i] = "txCommit"
    /\ IF ~Conflicted(i)
       THEN /\ db' = BusSpWrite(db, BusSalespersonId(notif[i]), txSp[i],
                                BusCommissionAmount(notif[i]), txMonth[i])
            /\ committed' = [committed EXCEPT ![i] = TRUE]
            /\ conflict' = Invalidate(i, "", {BusSalespersonId(notif[i])})
            /\ Finish(i, "ack", "none")
            /\ UNCHANGED attempts
       ELSE IF attempts[i] < MaxAttempts
       THEN /\ pc' = [pc EXCEPT ![i] = "txGetSp"]
            /\ attempts' = [attempts EXCEPT ![i] = @ + 1]
            /\ conflict' = [conflict EXCEPT ![i] = FALSE]
            /\ txSp' = [txSp EXCEPT ![i] = NoSp]
            /\ UNCHANGED <<db, committed, resp, txUser, txNow, err>>
       ELSE /\ Finish(i, BusCatch(i), "ABORTED")
            /\ conflict' = [conflict EXCEPT ![i] = FALSE]
            /\ UNCHANGED <<db, committed, attempts>>
    /\ UNCHANGED <<envVars, rollVars, notif>>

\* A store call throws: the catch logs and rethrows, the message is redelivered.
BusStoreError(i) ==
    /\ variant = "bus"
    /\ pc[i] \in {"userUpdate", "txGetSp", "txCommit"}
    /\ Finish(i, BusCatch(i), "UNAVAILABLE")
    /\ conflict' = [conflict EXCEPT ![i] = FALSE]
    /\ UNCHANGED <<envVars, rollVars, db, notif, committed, attempts>>

----------------------------------------------------------------------------
(* resetMonthlyEarnings (src/index.ts) *)

\* A rollover without the archive guard: every salesperson read is archived.
RolloverWritesAlwaysArchives(d, snap, m) ==
    [d EXCEPT
        !.historical = [s \in SPs |->
            IF snap[s].exists
            THEN [@[s] EXCEPT ![m] = [exists |-> TRUE,
                                      earnings |-> snap[s].currentMonthEarnings,
                                      totalCustomers |-> snap[s].totalSales]]
            ELSE @[s]],
        !.salespersons = [s \in SPs |->
            IF snap[s].exists
            THEN [@[s] EXCEPT !.currentMonthEarnings = 0, !.totalSales = 0]
            ELSE @[s]]]

\* A slip of the archive guard: only the earnings are looked at.
RolloverWritesEarningsOnly(d, snap, m) ==
    [d EXCEPT
        !.historical = [s \in SPs |->
            IF snap[s].exists /\ snap[s].currentMonthEarnings > 0
            THEN [@[s] EXCEPT ![m] = [exists |-> TRUE,
                                      earnings |-> snap[s].currentMonthEarnings,
                                      totalCustomers |-> snap[s].totalSales]]
            ELSE @[s]],
        !.salespersons = [s \in SPs |->
            IF snap[s].exists
            THEN [@[s] EXCEPT !.currentMonthEarnings = 0, !.totalSales = 0]
            ELSE @[s]]]

\* The batch built from the snapshot: archive (merge) when anything was earned, then reset.
RolloverWrites(d, snap, m) ==
    [d EXCEPT
        !.historical = [s \in SPs |->
            IF snap[s].exists /\ (snap[s].currentMonthEarnings > 0 \/ snap[s].totalSales > 0)
            THEN [@[s] EXCEPT ![m] = [exists |-> TRUE,
                                      earnings |-> snap[s].currentMonthEarnings,
                                      totalCustomers |-> snap[s].totalSales]]
            ELSE @[s]],
        !.salespersons = [s \in SPs |->
            IF snap[s].exists
            THEN [@[s] EXCEPT !.currentMonthEarnings = 0, !.totalSales = 0]
            ELSE @[s]]]

\* const snapshot = await salespersonsRef.get();
RolloverRead ==
    /\ variant = "http"
    /\ rpc = "idle"
    /\ Len(runs) < MaxRollovers
    /\ rsnap' = db.salespersons
    /\ rpc' = "commit"
    /\ UNCHANGED <<envVars, db, pc, notif, resp, committed, attempts, conflict, txUser, txNow, txSp, err, runs,
                   resetAt>>

\* await batch.commit();
RolloverCommit ==
    /\ rpc = "commit"
    /\ db' = RolloverWrites(db, rsnap, month)
    /\ conflict' = [i \in Deliveries |->
            IF \E s \in SPs : rsnap[s].exists /\ ReadsSp(i, s) THEN TRUE ELSE conflict[i]]
    /\ rpc' = "idle"
    /\ rsnap' = [s \in SPs |-> NoSp]
    /\ runs' = Append(runs, "ok")
    /\ resetAt' = [s \in SPs |-> IF rsnap[s].exists THEN Len(db.sales) ELSE resetAt[s]]
    /\ UNCHANGED <<envVars, pc, notif, resp, committed, attempts, txUser, txNow, txSp, err>>

\* A commit that fails half-way: the resets written so far stay.
RolloverErrorKeepsSome ==
    /\ rpc = "commit"
    /\ db' = [db EXCEPT !.salespersons["s2"] =
                [@ EXCEPT !.currentMonthEarnings = 0, !.totalSales = 0]]
    /\ rpc' = "idle"
    /\ rsnap' = [s \in SPs |-> NoSp]
    /\ runs' = Append(runs, "failed")
    /\ UNCHANGED resetAt
    /\ UNCHANGED <<envVars, pc, notif, resp, committed, attempts, conflict, txUser, txNow, txSp, err>>

\* batch.commit() throws: no write of the batch is applied.
RolloverError ==
    /\ rpc = "commit"
    /\ rpc' = "idle"
    /\ rsnap' = [s \in SPs |-> NoSp]
    /\ runs' = Append(runs, "failed")
    /\ UNCHANGED resetAt
    /\ UNCHANGED <<envVars, db, pc, notif, resp, committed, attempts, conflict, txUser, txNow, txSp, err>>

----------------------------------------------------------------------------
(* createPayPalOrder: src/index.ts asks the processor for an order, src/index.js looks
   the user's salesperson up and returns a simulated order *)

Calls == 1..MaxCalls

Tiers == {"local", "sadc", "global"}

\* const paymentTiers = {...} of src/index.ts, the value in cents
PaymentTiers(tier) ==
    CASE tier = "local" -> [currency_code |-> "USD", value |-> 5000]
      [] tier = "sadc" -> [currency_code |-> "USD", value |-> 10000]
      [] tier = "global" -> [currency_code |-> "USD", value |-> 38000]
      [] OTHER -> [currency_code |-> "", value |-> 0]

\* A key every object inherits from Object.prototype: paymentTiers[key] is a function.
InheritedKeys == {"toString"}

\* paymentTiers[selectedTierId] is truthy: an entry of the table or an inherited member.
TierFound(tier) == tier \in Tiers \cup InheritedKeys

\* The caller's request: auth "" = no caller identity, tier "" / userId "" = not given.
CallInputs ==
    [auth : {"", "uid1"}, tier : Tiers \cup {"", "platinum", "toString"},
     userId : {"", "u1", "u3"}]

NoResult == [code |-> "", message |-> "", details |-> "", redirectUrl |-> "", orderId |-> ""]

HttpsError(code, message, details) ==
    [NoResult EXCEPT !.code = code, !.message = message, !.details = details]

NoCall ==
    [pc |-> "idle", auth |-> "", tier |-> "", userId |-> "", sent |-> <<>>, reads |-> 0,
     salespersonId |-> "", result |-> NoResult]

\* A slip of the order of the checks: the tier is validated before the caller.
OrderCheckTierFirst(in) ==
    IF in.tier = "" THEN HttpsError("invalid-argument", "Payment tier is required.", "")
    ELSE IF ~TierFound(in.tier)
    THEN HttpsError("invalid-argument", "Invalid payment tier selected.", "")
    ELSE IF in.auth = ""
    THEN HttpsError("unauthenticated", "User must be authenticated to create an order.", "")
    ELSE NoResult

\* The checks of src/index.ts before the processor is called (NoResult = all passed).
OrderCheck(in) ==
    IF in.auth = ""
    THEN HttpsError("unauthenticated", "User must be authenticated to create an order.", "")
    ELSE IF in.tier = "" THEN HttpsError("invalid-argument", "Payment tier is required.", "")
    ELSE IF ~TierFound(in.tier)
    THEN HttpsError("invalid-argument", "Invalid payment tier selected.", "")
    ELSE NoResult

\* The checks of src/index.js before the user document is read.
BusOrderCheck(in) ==
    IF in.auth = ""
    THEN HttpsError("unauthenticated", "User must be authenticated to create an order.", "")
    ELSE IF in.userId = "" \/ in.tier = ""
    THEN HttpsError("invalid-argument", "Missing user ID or selected tier ID.", "")
    ELSE IF ~TierFound(in.tier)
    THEN HttpsError("invalid-argument", "Invalid payment tier selected.", "")
    ELSE NoResult

\* payPalRequest.requestBody({...}): the purchase unit sent to the processor (an
\* inherited member has no currency_code and no value: "" and 0 stand for undefined)
OrderRequest(in) ==
    [reference_id |-> in.userId, currency_code |-> PaymentTiers(in.tier).currency_code,
     value |-> PaymentTiers(in.tier).value]

\* What the processor answers: an order with its approval link, or an error.
ProcessorErrors == {"INVALID_REQUEST", "AUTHENTICATION_FAILURE"}

\* order.result.id of the orders the processor creates; their approval link is
\* "approve/" followed by the id.
ProcessorOrders == {"P1", "P2"}

NextCall(c) == intake[c].pc = "idle" /\ \A b \in Calls : b < c => intake[b].pc # "idle"

otherVars ==
    <<variant, month, now, db, pc, notif, resp, committed, attempts, conflict, txUser, txSp,
      txNow, err, rpc, rsnap, runs, resetAt, report, strictReads, failures, txMonth>>

\* createPayPalOrder of src/index.ts up to client.execute(payPalRequest)
OrderCall(c) ==
    /\ variant = "http"
    /\ NextCall(c)
    /\ \E in \in CallInputs :
        intake' = [intake EXCEPT ![c] =
            IF OrderCheck(in) # NoResult
            THEN [NoCall EXCEPT !.pc = "done", !.auth = in.auth, !.tier = in.tier,
                                !.userId = in.userId, !.result = OrderCheck(in)]
            ELSE [NoCall EXCEPT !.pc = "execute", !.auth = in.auth, !.tier = in.tier,
                                !.userId = in.userId, !.sent = <<OrderRequest(in)>>]]
    /\ UNCHANGED otherVars

\* The processor created the order: return { redirectUrl, orderId }.
OrderCreated(c) ==
    /\ variant = "http"
    /\ intake[c].pc = "execute"
    /\ \E o \in ProcessorOrders :
        intake' = [intake EXCEPT ![c].pc = "done",
                                 ![c].result = [NoResult EXCEPT !.code = "ok",
                                                                !.redirectUrl = "approve/" \o o,
                                                                !.orderId = o]]
    /\ UNCHANGED otherVars

\* client.execute rejects: catch, log, throw HttpsError('internal', ..., error.message).
OrderFailed(c) ==
    /\ variant = "http"
    /\ intake[c].pc = "execute"
    /\ \E e \in ProcessorErrors :
        intake' = [intake EXCEPT ![c].pc = "done",
                                 ![c].result = HttpsError("internal",
                                                          "Failed to create PayPal order.", e)]
    /\ UNCHANGED otherVars

\* createPayPalOrder of src/index.js up to the read of the user document
BusOrderCall(c) ==
    /\ variant = "bus"
    /\ NextCall(c)
    /\ \E in \in CallInputs :
        intake' = [intake EXCEPT ![c] =
            IF BusOrderCheck(in) # NoResult
            THEN [NoCall EXCEPT !.pc = "done", !.auth = in.auth, !.tier = in.tier,
                                !.userId = in.userId, !.result = BusOrderCheck(in)]
            ELSE [NoCall EXCEPT !.pc = "fetch", !.auth = in.auth, !.tier = in.tier,
                                !.userId = in.userId]]
    /\ UNCHANGED otherVars

\* The user document is read for the salesperson id (the default stays when there is
\* none), or the read fails and is logged; either way the simulated order is returned.
BusOrderFetch(c) ==
    /\ variant = "bus"
    /\ intake[c].pc = "fetch"
    /\ \E failed \in BOOLEAN :
        intake' = [intake EXCEPT
            ![c].pc = "done",
            ![c].reads = @ + 1,
            ![c].salespersonId =
                IF ~failed /\ UserDoc(db, intake[c].userId).exists
                           /\ UserDoc(db, intake[c].userId).salesperson # ""
                THEN UserDoc(db, intake[c].userId).salesperson
                ELSE "unknown_salesperson",
            ![c].result = [NoResult EXCEPT !.code = "ok",
                                           !.redirectUrl = "https://example.com/simulated-paypal-redirect",
                                           !.orderId = "SIMULATED_ORDER_ID"]]
    /\ UNCHANGED otherVars

----------------------------------------------------------------------------
(* Reporting: getMonthlySalesReport, getYearlySalesReport (src/index.js) and
   getSalespersonData (src/index.ts) *)

\* The caller's request: auth "" = no caller identity, salespersonId "" / period "" = not
\* given; period is data.yearMonth of the monthly and data.year of the yearly report.
ReportInputs ==
    [kind : {"monthly"}, auth : {"", "uid1"}, salespersonId : {"", "s1", "s2"},
     period : {"2026-11", "2026-12", ""}]
    \cup [kind : {"yearly"}, auth : {"", "uid1"}, salespersonId : {"", "s1", "s2"},
          period : {"2026", ""}]

NoReportResult ==
    [code |-> "", message |-> "", details |-> "", totalCommission |-> 0, sales |-> {},
     salespersons |-> {}]

ReportError(code, message, details) ==
    [NoReportResult EXCEPT !.code = code, !.message = message, !.details = details]

NoReport ==
    [pc |-> "idle", kind |-> "", auth |-> "", salespersonId |-> "", period |-> "",
     reads |-> 0, pending |-> <<>>, result |-> NoReportResult]

\* A slip of the order of the checks: the arguments are validated before the caller.
ReportCheckArgumentsFirst(in) ==
    IF in.salespersonId = "" \/ in.period = ""
    THEN ReportError("invalid-argument",
                     IF in.kind = "monthly" THEN "Salesperson ID and year/month are required."
                                            ELSE "Salesperson ID and year are required.", "")
    ELSE IF in.auth = "" THEN ReportError("unauthenticated", "Authentication required.", "")
    ELSE NoReportResult

\* The checks of a report before the store is read (NoReportResult = all passed).
ReportCheck(in) ==
    IF in.auth = "" THEN ReportError("unauthenticated", "Authentication required.", "")
    ELSE IF in.salespersonId = "" \/ in.period = ""
    THEN ReportError("invalid-argument",
                     IF in.kind = "monthly" THEN "Salesperson ID and year/month are required."
                                            ELSE "Salesperson ID and year are required.", "")
    ELSE NoReportResult

\* A slip of the lookup: the current month's total whatever the period asked for.
PeriodCommissionCurrentMonth(doc, kind, P) == doc.monthlyCommission["2026-11"]

\* salespersonData.monthlyCommission?.[yearMonth] || 0, yearlyCommission?.[year] || 0
PeriodCommission(doc, kind, P) ==
    IF kind = "monthly"
    THEN IF P \in DOMAIN doc.monthlyCommission THEN doc.monthlyCommission[P] ELSE 0
    ELSE IF P \in DOMAIN doc.yearlyCommission THEN doc.yearlyCommission[P] ELSE 0

\* collection('sales').where('saleMonth' | 'saleYear', '==', P).get()
PeriodSales(d, s, kind, P) ==
    {x \in d.spSales :
        x.salesperson = s /\ (IF kind = "monthly" THEN x.saleMonth ELSE x.saleYear) = P}

\* A slip of the empty report: a missing salesperson is an error.
MissingSalespersonNotFound == ReportError("not-found", "Salesperson not found.", "")

\* return { totalCommission: 0, sales: [], message: '...' } for a missing salesperson
MissingSalesperson ==
    [NoReportResult EXCEPT !.code = "ok", !.message = "Salesperson not found or no sales data."]

NextReport(c) == report[c].pc = "idle" /\ \A b \in Calls : b < c => report[b].pc # "idle"

reportFrame ==
    <<variant, month, now, intake, strictReads, failures, txMonth, pc, notif, resp, committed, attempts, conflict, txUser,
      txSp, txNow, err, rpc, rsnap, runs, resetAt>>

\* getMonthlySalesReport / getYearlySalesReport up to the read of the salesperson
ReportCall(c) ==
    /\ variant = "bus"
    /\ NextReport(c)
    /\ \E in \in ReportInputs :
        report' = [report EXCEPT ![c] =
            [NoReport EXCEPT !.pc = IF ReportCheck(in) # NoReportResult THEN "done" ELSE "getSp",
                             !.kind = in.kind, !.auth = in.auth,
                             !.salespersonId = in.salespersonId, !.period = in.period,
                             !.result = ReportCheck(in)]]
    /\ UNCHANGED <<db, reportFrame>>

\* A slip of the read: the missing salesperson document is created.
ReportGetSpCreates(c) ==
    /\ variant = "bus"
    /\ report[c].pc = "getSp"
    /\ LET doc == SpDoc(db, report[c].salespersonId) IN
        /\ report' = [report EXCEPT
              ![c].reads = @ + 1,
              ![c].pc = IF doc.exists THEN "getSales" ELSE "done",
              ![c].result =
                  IF doc.exists
                  THEN [NoReportResult EXCEPT
                          !.totalCommission = PeriodCommission(doc, report[c].kind, report[c].period)]
                  ELSE MissingSalesperson]
        /\ db' = IF doc.exists \/ report[c].salespersonId \notin SPs THEN db
                 ELSE [db EXCEPT !.salespersons[report[c].salespersonId].exists = TRUE]
    /\ UNCHANGED reportFrame

\* salespersonDoc = await ...doc(salespersonId).get(): a missing document ends the call
\* with the empty report, an existing one gives the period's commission.
ReportGetSp(c) ==
    /\ variant = "bus"
    /\ report[c].pc = "getSp"
    /\ LET doc == SpDoc(db, report[c].salespersonId) IN
        report' = [report EXCEPT
            ![c].reads = @ + 1,
            ![c].pc = IF doc.exists THEN "getSales" ELSE "done",
            ![c].result =
                IF doc.exists
                THEN [NoReportResult EXCEPT
                        !.totalCommission = PeriodCommission(doc, report[c].kind, report[c].period)]
                ELSE MissingSalesperson]
    /\ UNCHANGED <<db, reportFrame>>

\* salesSnapshot = await ...where(...).get(); return { totalCommission, sales }
ReportGetSales(c) ==
    /\ variant = "bus"
    /\ report[c].pc = "getSales"
    /\ report' = [report EXCEPT
          ![c].reads = @ + 1,
          ![c].pc = "done",
          ![c].result.code = "ok",
          ![c].result.sales =
              PeriodSales(db, report[c].salespersonId, report[c].kind, report[c].period)]
    /\ UNCHANGED <<db, reportFrame>>

\* A store read of the report rejects: catch, log, throw HttpsError('internal', ...,
\* err.message).
ReportStoreError(c) ==
    /\ variant = "bus"
    /\ report[c].pc \in {"getSp", "getSales"}
    /\ report' = [report EXCEPT
          ![c].pc = "done",
          ![c].result =
              ReportError("internal",
                          IF report[c].kind = "monthly"
                          THEN "Failed to retrieve monthly sales report."
                          ELSE "Failed to retrieve yearly sales report.", "UNAVAILABLE")]
    /\ UNCHANGED <<db, reportFrame>>

\* snapshot.docs of the salespersons collection, in document order
SpOrder == <<"s1", "s2">>

IsStored(d, s) == d.salespersons[s].exists

\* monthlyPayouts.orderBy('month', 'desc').limit(1): the latest month, "null" if none
LatestMonthlyPayout(d, s) ==
    IF "2027-01" \in d.monthlyPayouts[s] THEN "2027-01"
    ELSE IF "2026-12" \in d.monthlyPayouts[s] THEN "2026-12"
    ELSE IF "2026-11" \in d.monthlyPayouts[s] THEN "2026-11"
    ELSE "null"

\* getSalespersonData up to the read of the salespersons collection
DataCall(c) ==
    /\ variant = "http"
    /\ NextReport(c)
    /\ \E auth \in {"", "uid1"} :
        report' = [report EXCEPT ![c] =
            IF auth = ""
            THEN [NoReport EXCEPT !.pc = "done", !.kind = "data",
                     !.result = ReportError("unauthenticated", "Authentication required.", "")]
            ELSE [NoReport EXCEPT !.pc = "list", !.kind = "data", !.auth = auth]]
    /\ UNCHANGED <<db, reportFrame>>

\* snapshot = await db.collection('salespersons').get()
DataList(c) ==
    /\ variant = "http"
    /\ report[c].pc = "list"
    /\ LET docs == SelectSeq(SpOrder, LAMBDA s : IsStored(db, s)) IN
        report' = [report EXCEPT
            ![c].reads = @ + 1,
            ![c].pending = [k \in 1..Len(docs) |-> [id |-> docs[k], data |-> db.salespersons[docs[k]]]],
            ![c].pc = IF docs = <<>> THEN "done" ELSE "payouts",
            ![c].result.code = IF docs = <<>> THEN "ok" ELSE ""]
    /\ UNCHANGED <<db, reportFrame>>

\* One round of the loop: the latest monthly payout of the next salesperson is read and
\* the salesperson is pushed; after the last one { salespersons } is returned.
DataPayout(c) ==
    /\ variant = "http"
    /\ report[c].pc = "payouts"
    /\ LET doc == Head(report[c].pending) IN
        report' = [report EXCEPT
            ![c].reads = @ + 1,
            ![c].pending = Tail(@),
            ![c].result.salespersons =
                @ \cup {[id |-> doc.id, data |-> doc.data,
                         currentMonthPayout |-> LatestMonthlyPayout(db, doc.id)]},
            ![c].pc = IF Len(report[c].pending) = 1 THEN "done" ELSE "payouts",
            ![c].result.code = IF Len(report[c].pending) = 1 THEN "ok" ELSE ""]
    /\ UNCHANGED <<db, reportFrame>>

\* A store read of getSalespersonData rejects: catch, log, throw HttpsError('internal', ...).
DataStoreError(c) ==
    /\ variant = "http"
    /\ report[c].pc \in {"list", "payouts"}
    /\ report' = [report EXCEPT
          ![c].pc = "done",
          ![c].pending = <<>>,
          ![c].result = ReportError("internal", "Failed to retrieve salesperson data.", "")]
    /\ UNCHANGED <<db, reportFrame>>

----------------------------------------------------------------------------

InitStore ==
    /\ variant \in {"http", "bus"}
    /\ db = InitDb(variant)
    /\ month = "2026-11"
    /\ pc = [i \in Deliveries |-> "idle"]
    /\ notif = [i \in Deliveries |-> NoRequest]
    /\ resp = [i \in Deliveries |-> "none"]
    /\ committed = [i \in Deliveries |-> FALSE]
    /\ attempts = [i \in Deliveries |-> 0]
    /\ conflict = [i \in Deliveries |-> FALSE]
    /\ txUser = [i \in Deliveries |-> NoUser]
    /\ txSp = [i \in Deliveries |-> NoSp]
    /\ txNow = [i \in Deliveries |-> 0]
    /\ now = 0
    /\ intake = [c \in Calls |-> NoCall]
    /\ err = [i \in Deliveries |-> "none"]
    /\ rpc = "idle"
    /\ rsnap = [s \in SPs |-> NoSp]
    /\ runs = <<>>
    /\ report = [c \in Calls |-> NoReport]
    /\ failures = 0
    /\ resetAt = [s \in SPs |-> -1]
    /\ txMonth = [i \in Deliveries |-> ""]

Init == InitStore /\ strictReads = FALSE

\* Deliveries of either deployment of paypalWebhookHandler, running concurrently.
Next ==
    \/ \E i \in Deliveries : HttpReceive(i)
    \/ \E i \in Deliveries : HttpTxGetUser(i)
    \/ \E i \in Deliveries : HttpTxGetSp(i)
    \/ \E i \in Deliveries : HttpTxCommit(i)
    \/ \E i \in Deliveries : HttpStoreError(i)
    \/ \E i \in Deliveries : BusReceive(i)
    \/ \E i \in Deliveries : BusUserUpdate(i)
    \/ \E i \in Deliveries : BusTxGetSp(i)
    \/ \E i \in Deliveries : BusTxCommit(i)
    \/ \E i \in Deliveries : BusStoreError(i)

Spec == Init /\ [][Next]_vars

\* The functions of src/index.ts together: completed payments delivered to the http
\* endpoint while resetMonthlyEarnings runs.
RolloverRequests ==
    {[HttpBase EXCEPT !.reference_id = "u2", !.id = "o3"],
     [HttpBase EXCEPT !.id = "o8", !.amount = 0]}

HttpReceivePaid(i) == HttpReceiveFrom(i, RolloverRequests)

InitRollover == Init /\ variant = "http"

NextRollover ==
    \/ \E i \in Deliveries : HttpReceivePaid(i)
    \/ \E i \in Deliveries : HttpTxGetUser(i)
    \/ \E i \in Deliveries : HttpTxGetSp(i)
    \/ \E i \in Deliveries : HttpTxCommit(i)
    \/ \E i \in Deliveries : HttpStoreError(i)
    \/ RolloverRead
    \/ RolloverCommit
    \/ RolloverError

SpecRollover == InitRollover /\ [][NextRollover]_vars

\* Completed payments delivered to either deployment while the wall clock advances.
ClockMessages ==
    {BusBase,
     [BusBase EXCEPT !.id = "o2", !.amount = 5000, !.currency = "ZAR", !.email = "b@x",
                     !.description = "local"],
     [BusBase EXCEPT !.custom_id = <<"u2", "_", "s2">>, !.id = "o3", !.amount = 5000,
                     !.description = "local"]}

BusReceivePaid(i) == BusReceiveFrom(i, ClockMessages)

\* Date.now() grows between two steps.
Tick ==
    /\ now < MaxTime
    /\ now' = now + 1
    /\ UNCHANGED <<variant, month, intake, report, strictReads, failures, txMonth, rollVars, db, pc, notif, resp, committed, attempts,
                   conflict, txUser, txNow, txSp, err>>

NextClock ==
    \/ \E i \in Deliveries : HttpReceivePaid(i)
    \/ \E i \in Deliveries : HttpTxGetUser(i)
    \/ \E i \in Deliveries : HttpTxGetSp(i)
    \/ \E i \in Deliveries : HttpTxCommit(i)
    \/ \E i \in Deliveries : HttpStoreError(i)
    \/ \E i \in Deliveries : BusReceivePaid(i)
    \/ \E i \in Deliveries : BusUserUpdate(i)
    \/ \E i \in Deliveries : BusTxGetSp(i)
    \/ \E i \in Deliveries : BusTxCommit(i)
    \/ \E i \in Deliveries : BusStoreError(i)
    \/ Tick

SpecClock == Init /\ [][NextClock]_vars

\* Calls of createPayPalOrder, running concurrently.
NextOrder ==
    \/ \E c \in Calls : OrderCall(c)
    \/ \E c \in Calls : OrderCreated(c)
    \/ \E c \in Calls : OrderFailed(c)
    \/ \E c \in Calls : BusOrderCall(c)
    \/ \E c \in Calls : BusOrderFetch(c)

SpecOrder == Init /\ [][NextOrder]_vars

\* Reporting calls, running concurrently with the reconciliation of one completed payment
\* by the bus deployment.
ReportMessages == {BusBase}

BusReceiveOne(i) == i = 1 /\ BusReceiveFrom(i, ReportMessages)

NextReporting ==
    \/ \E i \in Deliveries : BusReceiveOne(i)
    \/ \E i \in Deliveries : BusUserUpdate(i)
    \/ \E i \in Deliveries : BusTxGetSp(i)
    \/ \E i \in Deliveries : BusTxCommit(i)
    \/ \E i \in Deliveries : BusStoreError(i)
    \/ \E c \in Calls : ReportCall(c)
    \/ \E c \in Calls : ReportGetSp(c)
    \/ \E c \in Calls : ReportGetSales(c)
    \/ \E c \in Calls : ReportStoreError(c)
    \/ \E c \in Calls : DataCall(c)
    \/ \E c \in Calls : DataList(c)
    \/ \E c \in Calls : DataPayout(c)
    \/ \E c \in Calls : DataStoreError(c)

SpecReporting == Init /\ [][NextReporting]_vars

\* Completed payments delivered to the bus deployment while the calendar advances from
\* November 2026 into January 2027.
MonthAfter(m) == IF m = "2026-11" THEN "2026-12" ELSE "2027-01"

\* new Date() falls into the next month.
NextMonth ==
    /\ month # "2027-01"
    /\ month' = MonthAfter(month)
    /\ UNCHANGED <<variant, now, intake, report, strictReads, failures, txMonth, rollVars, db,
                   pc, notif, resp, committed, attempts, conflict, txUser, txNow, txSp, err>>

InitCalendar == Init /\ variant = "bus"

NextCalendar ==
    \/ \E i \in Deliveries : BusReceivePaid(i)
    \/ \E i \in Deliveries : BusUserUpdate(i)
    \/ \E i \in Deliveries : BusTxGetSp(i)
    \/ \E i \in Deliveries : BusTxCommit(i)
    \/ \E i \in Deliveries : BusStoreError(i)
    \/ NextMonth

SpecCalendar == InitCalendar /\ [][NextCalendar]_vars

\* Completed payments of existing users, delivered to the http endpoint by a notifier
\* that delivers a notification again after every 500, while the store fails at most
\* MaxFailures times. The store client either enforces reads before writes or does not.
RetryRequests ==
    {HttpBase,
     [HttpBase EXCEPT !.reference_id = "u2", !.id = "o3"],
     [HttpBase EXCEPT !.reference_id = "u3", !.id = "o4"]}

HttpDeliver(i) == HttpReceiveFrom(i, RetryRequests)

\* The notifier delivers the notification again: the handler runs from its start.
HttpRedeliver(i) ==
    /\ variant = "http"
    /\ pc[i] = "done" /\ resp[i] = "500"
    /\ IF HttpDispatch(notif[i]) = "tx"
       THEN /\ pc' = [pc EXCEPT ![i] = "txGetUser"]
            /\ attempts' = [attempts EXCEPT ![i] = 1]
            /\ resp' = [resp EXCEPT ![i] = "none"]
            /\ err' = [err EXCEPT ![i] = "none"]
            /\ UNCHANGED <<txUser, txNow, txSp>>
       ELSE /\ Finish(i, HttpCatch(i), "TypeError")
            /\ UNCHANGED attempts
    /\ UNCHANGED <<envVars, rollVars, db, notif, committed, conflict>>

\* transaction.get(salespersonRef) after transaction.update(userRef): the client throws
\* "Firestore transactions require all reads to be executed before all writes."
HttpReadAfterWrite(i) ==
    /\ variant = "http"
    /\ pc[i] = "txGetSp"
    /\ strictReads
    /\ Finish(i, HttpCatch(i), "READ_AFTER_WRITE")
    /\ conflict' = [conflict EXCEPT ![i] = FALSE]
    /\ UNCHANGED <<envVars, rollVars, db, notif, committed, attempts>>

\* A store call of the transaction fails, which happens MaxFailures times at most.
HttpStoreFailure(i) ==
    /\ variant = "http"
    /\ failures < MaxFailures
    /\ pc[i] \in {"txGetUser", "txGetSp", "txCommit"}
    /\ failures' = failures + 1
    /\ Finish(i, HttpCatch(i), "UNAVAILABLE")
    /\ conflict' = [conflict EXCEPT ![i] = FALSE]
    /\ UNCHANGED <<variant, month, now, intake, report, strictReads, txMonth, rollVars, db, notif,
                   committed, attempts>>

InitRetry == InitStore /\ variant = "http" /\ strictReads \in BOOLEAN

NextRetry ==
    \/ \E i \in Deliveries : HttpDeliver(i)
    \/ \E i \in Deliveries : HttpRedeliver(i)
    \/ \E i \in Deliveries : HttpTxGetUser(i)
    \/ \E i \in Deliveries : HttpTxGetSp(i)
    \/ \E i \in Deliveries : HttpReadAfterWrite(i)
    \/ \E i \in Deliveries : HttpTxCommit(i)
    \/ \E i \in Deliveries : HttpStoreFailure(i)

\* A started handler runs to its end, and the notifier does deliver again after a 500.
RetryFairness ==
    \A i \in Deliveries :
        /\ WF_vars(HttpRedeliver(i))
        /\ WF_vars(HttpTxGetUser(i))
        /\ WF_vars(HttpTxGetSp(i))
        /\ WF_vars(HttpReadAfterWrite(i))
        /\ WF_vars(HttpTxCommit(i))

SpecRetry == InitRetry /\ [][NextRetry]_vars /\ RetryFairness

\* Everything that runs against the store of a deployment, together: two payments of u1 and
\* denied, cancelled and expired events, the monthly rollover, one reporting call, and the
\* wall clock advancing.
MembershipRequests ==
    {HttpBase,
     [HttpBase EXCEPT !.id = "o2", !.amount = 5000, !.currency = "ZAR", !.email = "b@x"],
     [HttpBase EXCEPT !.type = "PAYMENT.CAPTURE.DENIED", !.status = "DECLINED"],
     [HttpBase EXCEPT !.type = "BILLING.SUBSCRIPTION.CANCELLED", !.status = "CANCELLED"],
     [HttpBase EXCEPT !.type = "BILLING.SUBSCRIPTION.EXPIRED", !.status = "EXPIRED"]}

MembershipMessages ==
    {BusBase,
     [BusBase EXCEPT !.id = "o2", !.amount = 5000, !.currency = "ZAR", !.email = "b@x",
                     !.description = "local"],
     [BusBase EXCEPT !.type = "PAYMENT.CAPTURE.DENIED", !.status = "DECLINED"],
     [BusBase EXCEPT !.type = "BILLING.SUBSCRIPTION.CANCELLED", !.status = "CANCELLED"],
     [BusBase EXCEPT !.type = "BILLING.SUBSCRIPTION.EXPIRED", !.status = "EXPIRED"]}

HttpReceiveEvent(i) == HttpReceiveFrom(i, MembershipRequests)

BusReceiveEvent(i) == BusReceiveFrom(i, MembershipMessages)

ReportCallOne(c) == c = 1 /\ ReportCall(c)

DataCallOne(c) == c = 1 /\ DataCall(c)

NextMembership ==
    \/ \E i \in Deliveries : HttpReceiveEvent(i)
    \/ \E i \in Deliveries : HttpTxGetUser(i)
    \/ \E i \in Deliveries : HttpTxGetSp(i)
    \/ \E i \in Deliveries : HttpTxCommit(i)
    \/ \E i \in Deliveries : HttpStoreError(i)
    \/ \E i \in Deliveries : BusReceiveEvent(i)
    \/ \E i \in Deliveries : BusUserUpdate(i)
    \/ \E i \in Deliveries : BusTxGetSp(i)
    \/ \E i \in Deliveries : BusTxCommit(i)
    \/ \E i \in Deliveries : BusStoreError(i)
    \/ RolloverRead
    \/ RolloverCommit
    \/ RolloverError
    \/ \E c \in Calls : ReportCallOne(c)
    \/ \E c \in Calls : ReportGetSp(c)
    \/ \E c \in Calls : ReportGetSales(c)
    \/ \E c \in Calls : ReportStoreError(c)
    \/ \E c \in Calls : DataCallOne(c)
    \/ \E c \in Calls : DataList(c)
    \/ \E c \in Calls : DataPayout(c)
    \/ \E c \in Calls : DataStoreError(c)
    \/ Tick

SpecMembership == Init /\ [][NextMembership]_vars


----------------------------------------------------------------------------
(* Vocabulary of the properties *)

PaymentEvents ==
    {"CHECKOUT.ORDER.COMPLETED", "CHECKOUT.ORDER.APPROVED", "PAYMENT.CAPTURE.COMPLETED"}

UserIdOf(i) == IF variant = "http" THEN HttpUserId(notif[i]) ELSE BusUserId(notif[i])

\* The salesperson a delivery is attributed to: the user record's reference (http) or
\* the reference embedded in the notification (bus).
CreditedSp(i) ==
    IF variant = "http" THEN UserDoc(db, HttpUserId(notif[i])).salesperson
    ELSE BusSalespersonId(notif[i])

\* The commission a notification is worth: 20% (http) or 10% (bus) of the paid amount.
CommissionOf(n) ==
    IF variant = "http" THEN (n.amount * 20) \div 100 ELSE (n.amount * 10) \div 100

\* The salesperson's cumulative commission and sale count in store d.
Total(d, s) ==
    IF variant = "http" THEN d.salespersons[s].currentMonthEarnings
    ELSE d.salespersons[s].totalCommission

Count(d, s) == d.salespersons[s].totalSales

RECURSIVE SumOf(_, _)
SumOf(f, S) ==
    IF S = {} THEN 0
    ELSE LET x == CHOOSE y \in S : TRUE IN f[x] + SumOf(f, S \ {x})

CommittedFor(s) == {i \in Deliveries : committed[i] /\ CreditedSp(i) = s}

\* The step is the commit of delivery i's reconciliation.
Commits(i) == ~committed[i] /\ committed'[i]

Acknowledged(i) == resp[i] \in {"200", "ack"}

----------------------------------------------------------------------------
(* C1: at-most-once credit. However often one completed-payment notification is
   delivered, the salesperson's commission total and sale count reflect it at most once:
   the total never exceeds the initial total plus the commissions of the DISTINCT
   notifications reconciled for that salesperson. The handlers have no duplicate
   guard, so two deliveries of one notification violate this. *)
AtMostOnceCredit ==
    \A s \in SPs :
        LET distinct == {notif[i] : i \in CommittedFor(s)}
        IN  /\ Total(db, s) <= Total(InitDb(variant), s)
                                + SumOf([n \in distinct |-> CommissionOf(n)], distinct)
            /\ Count(db, s) <= Count(InitDb(variant), s) + Cardinality(distinct)

(* C2: commission accrual. The commit of a reconciliation attributed to an existing
   salesperson record with commission C and sale count N, for paid amount A, leaves
   commission C + A*20% and count N + 1 and appends exactly one sale record whose
   commission is A*20% (http deployment); the bus deployment, which keeps neither a
   sale count nor sale records, leaves commission C + A*10%. *)
CommissionAccrual ==
    [][\A i \in Deliveries :
        (Commits(i) /\ CreditedSp(i) # "" /\ SpDoc(db, CreditedSp(i)).exists) =>
            LET s == CreditedSp(i)
                A == notif[i].amount
            IN  IF variant = "http"
                THEN /\ db'.salespersons[s].currentMonthEarnings
                            = db.salespersons[s].currentMonthEarnings + (A * 20) \div 100
                     /\ db'.salespersons[s].totalSales = db.salespersons[s].totalSales + 1
                     /\ Len(db'.sales) = Len(db.sales) + 1
                     /\ SubSeq(db'.sales, 1, Len(db.sales)) = db.sales
                     /\ db'.sales[Len(db'.sales)].commission = (A * 20) \div 100
                     /\ db'.sales[Len(db'.sales)].orderId = notif[i].id
                ELSE /\ db'.salespersons[s].totalCommission
                            = db.salespersons[s].totalCommission + (A * 10) \div 100
                     /\ db'.sales = db.sales]_vars

\* A = 100.00 at 20% adds 20.00 to s2's 10.00 and makes its one sale two.
CommissionAccrualWitness ==
    /\ variant = "http"
    /\ \E i \in Deliveries : committed[i] /\ notif[i].id = "o3" /\ notif[i].amount = 10000
    /\ db.salespersons["s2"].currentMonthEarnings = 3000
    /\ db.salespersons["s2"].totalSales = 2
    /\ Len(db.sales) = 1
    /\ db.sales[1].commission = 2000

(* C3: single atomic unit. In no store state is a user marked paid by a notification
   that carries a salesperson reference while no delivery of that notification has
   credited the salesperson. The bus deployment updates the user before, and outside,
   its transaction, which violates this. *)
SingleAtomicUnit ==
    \A u \in Users :
        (/\ db.users[u].paymentStatus = "paid"
         /\ \E i \in Deliveries :
                /\ notif[i].id = db.users[u].paypalOrderId
                /\ UserIdOf(i) = u
                /\ CreditedSp(i) # "")
        => \E j \in Deliveries :
                /\ committed[j]
                /\ notif[j].id = db.users[u].paypalOrderId
                /\ UserIdOf(j) = u

(* C4: failure semantics. When a step of the reconciliation transaction of the http
   handler raises an exception (the store is unavailable, or the transaction is aborted
   after its last attempt), the step leaves the store unchanged, nothing of that
   delivery is committed, and the handler answers 500. *)
FailureSemantics ==
    [][\A i \in Deliveries :
        (variant = "http" /\ err[i] = "none" /\ err'[i] \in {"UNAVAILABLE", "ABORTED"}) =>
            /\ db' = db
            /\ ~committed'[i]
            /\ resp'[i] = "500"]_vars

\* A transaction was aborted after another delivery's commit and a rollover invalidated it.
FailureSemanticsWitness ==
    \E i, j \in Deliveries :
        /\ err[i] = "ABORTED" /\ resp[i] = "500" /\ attempts[i] = MaxAttempts
        /\ ~committed[i]
        /\ committed[j]
        /\ Len(runs) > 0

(* C5: redelivery is not idempotent. The commit of a delivery whose very notification
   another delivery has already committed credits the commission again; in the http
   deployment it also increments the sale count again and appends a second sale record
   with the same order id. *)
RedeliveryCreditsAgain ==
    [][\A i \in Deliveries :
        (/\ Commits(i)
         /\ CreditedSp(i) # ""
         /\ \E j \in Deliveries : j # i /\ committed[j] /\ notif[j] = notif[i]) =>
            LET s == CreditedSp(i)
            IN  /\ Total(db', s) = Total(db, s) + CommissionOf(notif[i])
                /\ variant = "http" =>
                    /\ Count(db', s) = Count(db, s) + 1
                    /\ Len(db'.sales) = Len(db.sales) + 1
                    /\ \E k \in 1..Len(db.sales) :
                            /\ db.sales[k].orderId = notif[i].id
                            /\ db'.sales[Len(db'.sales)].orderId = db.sales[k].orderId]_vars

\* Order o3 delivered twice: 10.00 + 20.00 + 20.00, three sales, two records of o3.
RedeliveryCreditsAgainWitness ==
    /\ variant = "http"
    /\ \E i, j \in Deliveries : i # j /\ committed[i] /\ committed[j] /\ notif[i] = notif[j]
    /\ db.salespersons["s2"].currentMonthEarnings = 5000
    /\ db.salespersons["s2"].totalSales = 3
    /\ Len(db.sales) = 2
    /\ db.sales[1].orderId = "o3" /\ db.sales[2].orderId = "o3"

(* C6: concurrent reconciliations lose no update. In every state the salesperson's
   commission total is the initial total plus the commissions of all committed
   deliveries attributed to that salesperson, and the sale count (http) has grown by
   their number, also when the record did not exist and several transactions saw it
   absent. *)
NoLostUpdate ==
    \A s \in SPs :
        /\ Total(db, s) = Total(InitDb(variant), s)
                + SumOf([i \in CommittedFor(s) |-> CommissionOf(notif[i])], CommittedFor(s))
        /\ variant = "http" =>
                Count(db, s) = Count(InitDb(variant), s) + Cardinality(CommittedFor(s))

\* Two distinct orders for s1, whose record did not exist; the second transaction was
\* re-run after the first one's commit.
NoLostUpdateWitness ==
    \E i, j \in Deliveries :
        /\ committed[i] /\ committed[j]
        /\ notif[i].id = "o1" /\ notif[j].id = "o2"
        /\ CreditedSp(i) = "s1" /\ CreditedSp(j) = "s1"
        /\ attempts[i] = 1 /\ attempts[j] = 2
        /\ Total(db, "s1") = CommissionOf(notif[i]) + CommissionOf(notif[j])

(* C7: reconciliations racing on one salesperson record are the only concurrency
   hazard. Once the rollover run and all deliveries have finished, the store is one
   that some one-at-a-time order of the operations that took effect (the committed
   reconciliations and the committed rollover run) produces from the initial store.
   The rollover reads the salespersons outside any transaction and commits a batch
   built from that snapshot, so a reconciliation committed in between is archived
   nowhere and reset away. *)
Quiescent == rpc = "idle" /\ \A i \in Deliveries : pc[i] \in {"idle", "done"}

\* The operations that took effect: deliveries by index, rollover runs after them.
Operations ==
    {i \in Deliveries : committed[i]}
        \cup {MaxDeliveries + k : k \in {h \in 1..Len(runs) : runs[h] = "ok"}}

\* One operation run alone, reading the store it writes.
SerialStep(d, op) ==
    IF op \in Deliveries
    THEN LET userSnap == UserDoc(d, HttpUserId(notif[op]))
         IN  HttpWrites(d, notif[op], userSnap, SpDoc(d, userSnap.salesperson), month, now)
    ELSE RolloverWrites(d, d.salespersons, month)

RECURSIVE SerialRun(_, _)
SerialRun(d, q) == IF q = <<>> THEN d ELSE SerialRun(SerialStep(d, Head(q)), Tail(q))

Orders(S) ==
    {q \in [1..Cardinality(S) -> S] : \A a, b \in 1..Cardinality(S) : a # b => q[a] # q[b]}

RolloverSerializable ==
    Quiescent => \E q \in Orders(Operations) : db = SerialRun(InitDb(variant), q)

(* C8: event dispatch. A step of a delivery whose event type is not one of the
   completed/approved payment types (capture denied, subscription cancelled or expired,
   anything unrecognized) leaves the whole store unchanged, ends the handler at once
   and commits nothing. *)
EventDispatch ==
    [][\A i \in Deliveries :
        (pc'[i] # pc[i] /\ notif'[i].type \notin PaymentEvents) =>
            /\ db' = db
            /\ pc'[i] = "done"
            /\ ~committed'[i]]_vars

\* A capture-denied and a subscription-cancelled event were handled: store as it was.
EventDispatchWitness ==
    /\ \E i, j \in Deliveries :
        /\ pc[i] = "done" /\ notif[i].type = "PAYMENT.CAPTURE.DENIED" /\ notif[i].resource
        /\ pc[j] = "done" /\ notif[j].type = "BILLING.SUBSCRIPTION.CANCELLED"
        /\ Acknowledged(i) /\ Acknowledged(j)
    /\ db = InitDb(variant)

(* C9: missing or malformed identifying fields. A completed/approved-payment
   notification without resource, without purchase units, without user reference or
   with an unparseable user/salesperson reference is acknowledged (200, or a normal
   return of the bus handler) and commits nothing. Both handlers dereference the
   resource unguarded, so a notification without resource ends in the catch block. *)
Malformed(n) ==
    /\ n.method = "POST"
    /\ n.type \in PaymentEvents
    /\ IF variant = "http"
       THEN ~n.resource \/ ~n.units \/ HttpUserId(n) = ""
       ELSE \/ ~n.resource \/ ~n.units \/ n.custom_id = <<>>
            \/ BusUserId(n) = "" \/ BusSalespersonId(n) = ""

MalformedAcknowledged ==
    \A i \in Deliveries :
        (pc[i] = "done" /\ Malformed(notif[i])) => (Acknowledged(i) /\ ~committed[i])

(* C10: user not found is a soft no-op. A well-formed completed-payment notification
   whose user id has no user record, handled while the store answers, commits nothing,
   leaves the user absent and is acknowledged. The bus handler's plain update of the
   missing user document throws, and its catch block rethrows. *)
ReachesStore(n) ==
    IF variant = "http" THEN HttpDispatch(n) = "tx" ELSE BusDispatch(n) = "update"

UserNotFoundSoftNoOp ==
    \A i \in Deliveries :
        (/\ pc[i] = "done"
         /\ ReachesStore(notif[i])
         /\ ~UserDoc(db, UserIdOf(i)).exists
         /\ err[i] # "UNAVAILABLE")
        => (Acknowledged(i) /\ ~committed[i] /\ err[i] = "none")

(* C11: HTTP response protocol. Every finished invocation of the http handler has sent
   one response: 405 exactly when the method is not POST (and then without any store
   access), 500 exactly when processing failed with an exception, 200 otherwise. A POST
   without a body fails on req.body.event_type before the try block is entered, so the
   handler ends without sending anything. *)
HttpResponseProtocol ==
    \A i \in Deliveries :
        (variant = "http" /\ pc[i] = "done") =>
            /\ resp[i] \in {"200", "405", "500"}
            /\ (resp[i] = "405") <=> (notif[i].method # "POST")
            /\ (resp[i] = "500") <=> (err[i] # "none")
            /\ (resp[i] = "405") => (~committed[i] /\ attempts[i] = 0)

(* C12: expiry reset. The step that reconciles a payment (the commit of the http
   transaction, the user update of the bus handler) sets the user's membership expiry to
   the time the handler read plus exactly 14 days, whatever expiry was stored before. *)
ProcessingTime(i) == txNow[i]

\* The step writes delivery i's payment to the user record.
Reconciles(i) ==
    IF variant = "http" THEN Commits(i)
    ELSE pc[i] = "userUpdate" /\ pc'[i] \in {"txGetSp", "done"} /\ err'[i] = "none"

ExpiryReset ==
    [][\A i \in Deliveries :
        Reconciles(i) =>
            /\ db'.users[UserIdOf(i)].membershipExpiry = ProcessingTime(i) + FourteenDays
            /\ ProcessingTime(i) <= now]_vars

\* u2, whose membership ran until day 10, paid on day 1: the membership ends on day 15.
ExpiryResetWitness ==
    /\ \E i \in Deliveries : committed[i] /\ UserIdOf(i) = "u2"
    /\ db.users["u2"].paymentStatus = "paid"
    /\ InitUser("u2").membershipExpiry > 1
    /\ db.users["u2"].membershipExpiry = 1 + FourteenDays

(* C13: user record write. A user record with payment status paid carries the paid
   amount, the currency, the processor order id and the payer email of one and the same
   delivered notification for that user. The bus handler's update does not write the
   payer email. *)
UserRecordWrite ==
    \A u \in Users :
        db.users[u].paymentStatus = "paid" =>
            \E i \in Deliveries :
                /\ pc[i] # "idle"
                /\ UserIdOf(i) = u
                /\ db.users[u].amount = notif[i].amount
                /\ db.users[u].currency = notif[i].currency
                /\ db.users[u].paypalOrderId = notif[i].id
                /\ db.users[u].payerEmail = notif[i].email

(* C14: lazy salesperson creation. A commit attributed to a salesperson without a
   record creates the record in that same step, with totals seeded from this one sale
   (commission = this sale's commission; count 1 in the http handler, the month and year
   totals in the bus handler). A commit attributed to a salesperson whose record exists
   adds to the stored totals: the create path never replaces an existing record. *)
LazySalespersonCreation ==
    [][\A i \in Deliveries :
        (Commits(i) /\ SpOf(i) # "") =>
            LET s == SpOf(i)
                c == CommissionOf(notif[i])
                old == db.salespersons[s]
                new == db'.salespersons[s]
            IN  IF ~old.exists
                THEN /\ new.exists
                     /\ Total(db', s) = c
                     /\ IF variant = "http" THEN new.totalSales = 1
                        ELSE /\ new.monthlyCommission = [ZeroMap(Months) EXCEPT ![month] = c]
                             /\ new.yearlyCommission = [ZeroMap(Years) EXCEPT ![YearOf(month)] = c]
                ELSE /\ new.exists
                     /\ Total(db', s) = Total(db, s) + c
                     /\ variant = "http" => new.totalSales = old.totalSales + 1]_vars

\* Two sales for s1, who had no record: the first created it, the second added to it.
LazySalespersonCreationWitness ==
    /\ ~InitSp(variant, "s1").exists
    /\ db.salespersons["s1"].exists
    /\ \A i \in Deliveries : committed[i] /\ pc[i] = "done" /\ CreditedSp(i) = "s1"
    /\ Total(db, "s1") = SumOf([i \in Deliveries |-> CommissionOf(notif[i])], Deliveries)

(* C15: no salesperson reference means no commission mutation. When a well-formed
   completed-payment notification for an existing user carries no salesperson reference
   and the user record has none either, the handler, unless the store fails, ends
   acknowledged having marked the user paid for this order, and that final step changes
   no salesperson record, no sale record and no historical record. The bus handler
   returns before the user update when the custom_id holds no salesperson id. *)
NoSalespersonReference(n, d) ==
    IF variant = "http"
    THEN /\ HttpDispatch(n) = "tx"
         /\ UserDoc(d, HttpUserId(n)).exists
         /\ UserDoc(d, HttpUserId(n)).salesperson = ""
    ELSE /\ n.type = "CHECKOUT.ORDER.APPROVED"
         /\ n.resource /\ n.units /\ n.payer /\ n.description # ""
         /\ BusUserId(n) # "" /\ BusSalespersonId(n) = ""
         /\ UserDoc(d, BusUserId(n)).exists
         /\ UserDoc(d, BusUserId(n)).salesperson = ""

NoCommissionWithoutSalesperson ==
    [][\A i \in Deliveries :
        (/\ pc[i] # "done" /\ pc'[i] = "done" /\ err'[i] = "none"
         /\ NoSalespersonReference(notif'[i], db))
        => LET u == IF variant = "http" THEN HttpUserId(notif'[i]) ELSE BusUserId(notif'[i])
           IN  /\ resp'[i] \in {"200", "ack"}
               /\ db'.users[u].paymentStatus = "paid"
               /\ db'.users[u].paypalOrderId = notif'[i].id
               /\ db'.salespersons = db.salespersons
               /\ db'.sales = db.sales
               /\ db'.historical = db.historical]_vars

(* C16: sale audit records. Every commit of a reconciliation attributed to a salesperson
   appends exactly one sale record under that salesperson, keyed by the current period
   and holding the user id, the order id, the paid amount and the commission; no step
   changes or removes a record that exists. The bus handler's transaction writes the
   salesperson totals only. *)
SaleRecordOf(i) ==
    [sp |-> SpOf(i), month |-> month, userId |-> UserIdOf(i), orderId |-> notif[i].id,
     amount |-> notif[i].amount, commission |-> CommissionOf(notif[i])]

SaleAuditRecords ==
    [][/\ Len(db'.sales) >= Len(db.sales)
       /\ SubSeq(db'.sales, 1, Len(db.sales)) = db.sales
       /\ \A i \in Deliveries :
            (Commits(i) /\ SpOf(i) # "") => db'.sales = Append(db.sales, SaleRecordOf(i))]_vars

(* C17: Monthly Rollover postcondition. The committing step of a run, for every
   salesperson record the run read with current-period earnings E and sale count N:
   writes the historical record of the run's period with earnings E and count N when
   E > 0 or N > 0, leaves the salesperson's historical records alone when E = 0 and
   N = 0, and sets the current-period earnings and sale count to 0. *)
RolloverCommits == rpc = "commit" /\ rpc' = "idle" /\ runs' = Append(runs, "ok")

Archived(s) ==
    [exists |-> TRUE, earnings |-> rsnap[s].currentMonthEarnings,
     totalCustomers |-> rsnap[s].totalSales]

IsReset(d, s) ==
    d.salespersons[s].currentMonthEarnings = 0 /\ d.salespersons[s].totalSales = 0

RolloverPostcondition ==
    [][RolloverCommits =>
        \A s \in SPs :
            rsnap[s].exists =>
                /\ (rsnap[s].currentMonthEarnings > 0 \/ rsnap[s].totalSales > 0)
                    => db'.historical[s][month] = Archived(s)
                /\ (rsnap[s].currentMonthEarnings = 0 /\ rsnap[s].totalSales = 0)
                    => db'.historical[s] = db.historical[s]
                /\ IsReset(db', s)]_vars

\* Two runs: the first archived s2's earnings and s1's sale without earnings, the second
\* found both at zero.
RolloverPostconditionWitness ==
    /\ runs = <<"ok", "ok">>
    /\ db.historical["s2"][month] =
         [exists |-> TRUE, earnings |-> InitSp("http", "s2").currentMonthEarnings,
          totalCustomers |-> InitSp("http", "s2").totalSales]
    /\ db.historical["s1"][month] = [exists |-> TRUE, earnings |-> 0, totalCustomers |-> 1]
    /\ IsReset(db, "s1") /\ IsReset(db, "s2")

\* C17 as stated: E > 0 archives E, E = 0 writes no historical record.
RolloverPostconditionEarningsOnly ==
    [][RolloverCommits =>
        \A s \in SPs :
            rsnap[s].exists =>
                /\ rsnap[s].currentMonthEarnings > 0
                    => db'.historical[s][month] = Archived(s)
                /\ rsnap[s].currentMonthEarnings = 0
                    => db'.historical[s] = db.historical[s]
                /\ IsReset(db', s)]_vars

(* C18: rollover batch atomicity. The step that ends a run either fails and leaves the
   whole store as it was, or commits and then every salesperson the run read is reset in
   that one step, together with the archive writes; historical records change in no
   other step. *)
RolloverFails == rpc = "commit" /\ rpc' = "idle" /\ runs' = Append(runs, "failed")

RolloverBatchAtomicity ==
    [][/\ RolloverFails => db' = db
       /\ RolloverCommits =>
            \A s \in SPs :
                rsnap[s].exists =>
                    /\ IsReset(db', s)
                    /\ (rsnap[s].currentMonthEarnings > 0 \/ rsnap[s].totalSales > 0)
                        => db'.historical[s][month].exists
       /\ db'.historical # db.historical => RolloverCommits]_vars

\* A run failed, the next one committed: both salespersons archived and reset.
RolloverBatchAtomicityWitness ==
    /\ runs = <<"failed", "ok">>
    /\ \A s \in SPs :
        /\ db.salespersons[s].exists
        /\ IsReset(db, s)
        /\ db.historical[s][month].exists

(* C19: rollover idempotence. A run that reads every salesperson at zero, which is what
   a run finds after an earlier run of the same period with no reconciliation since,
   changes nothing when it commits: the historical records keep the archived earnings and
   sale counts (they are not replaced by zeros) and the counters stay zero. *)
ReadsAllReset ==
    /\ rsnap = db.salespersons
    /\ \A s \in SPs :
        rsnap[s].exists => (rsnap[s].currentMonthEarnings = 0 /\ rsnap[s].totalSales = 0)

RolloverIdempotence ==
    [][(RolloverCommits /\ ReadsAllReset) => db' = db]_vars

\* Two runs and no payment at all: s2's archive still holds what the first run wrote.
RolloverIdempotenceWitness ==
    /\ runs = <<"ok", "ok">>
    /\ \A i \in Deliveries : pc[i] = "idle"
    /\ db.historical["s2"][month].earnings = InitSp("http", "s2").currentMonthEarnings
    /\ db.historical["s2"][month].earnings > 0
    /\ db.historical["s2"][month].totalCustomers = InitSp("http", "s2").totalSales
    /\ IsReset(db, "s2")

(* C20: Order Intake authentication. A call without caller identity ends at once with
   the typed error 'unauthenticated', whatever tier it names, and neither the processor
   nor the store was called for it. *)
OrderIntakeAuthentication ==
    \A c \in Calls :
        (intake[c].pc # "idle" /\ intake[c].auth = "") =>
            /\ intake[c].pc = "done"
            /\ intake[c].result.code = "unauthenticated"
            /\ intake[c].sent = <<>>
            /\ intake[c].reads = 0

\* Unauthenticated calls with an unknown tier and with no tier at all.
OrderIntakeAuthenticationWitness ==
    \E b, c \in Calls :
        /\ intake[b].pc = "done" /\ intake[b].auth = "" /\ intake[b].tier = "platinum"
        /\ intake[b].result.code = "unauthenticated"
        /\ intake[c].pc = "done" /\ intake[c].auth = "" /\ intake[c].tier = ""
        /\ intake[c].result.code = "unauthenticated"

(* C21: Order Intake tier validation. An authenticated call whose tier id is missing or
   is no key of the price table ends at once with the typed error 'invalid-argument',
   and no request was sent to the processor for it. *)
OrderIntakeTierValidation ==
    \A c \in Calls :
        (intake[c].pc # "idle" /\ intake[c].auth # "" /\ intake[c].tier \notin Tiers) =>
            /\ intake[c].pc = "done"
            /\ intake[c].result.code = "invalid-argument"
            /\ intake[c].sent = <<>>

(* C22: Order Intake price fidelity. For every valid tier id, an authenticated call has
   sent the processor exactly one order-creation request, whose amount and currency are
   the tier's entry of the price table (tier 'sadc': 100.00 USD), and a call that
   succeeded returns the approval URL and the order id the processor issued. *)
OrderIntakePriceFidelity ==
    \A c \in Calls :
        (intake[c].pc # "idle" /\ intake[c].auth # "" /\ intake[c].userId # ""
                               /\ intake[c].tier \in Tiers) =>
            /\ Len(intake[c].sent) = 1
            /\ intake[c].sent[1].value = PaymentTiers(intake[c].tier).value
            /\ intake[c].sent[1].currency_code = PaymentTiers(intake[c].tier).currency_code
            /\ intake[c].tier = "sadc" =>
                  intake[c].sent[1].value = 10000 /\ intake[c].sent[1].currency_code = "USD"
            /\ intake[c].result.code = "ok" =>
                  /\ intake[c].result.orderId \in ProcessorOrders
                  /\ intake[c].result.redirectUrl = "approve/" \o intake[c].result.orderId

(* C23: Order Intake hides processor errors. Whenever the processor call fails the caller
   receives an 'internal' error, and the code, message and details of that error are the
   same for any two failed calls and do not carry the processor's error message. *)
ProcessorFailed(c) == intake[c].pc = "done" /\ intake[c].sent # <<>> /\ intake[c].result.code # "ok"

OrderIntakeHidesProcessorErrors ==
    \A b, c \in Calls :
        (ProcessorFailed(b) /\ ProcessorFailed(c)) =>
            /\ intake[b].result.code = "internal"
            /\ intake[b].result = intake[c].result
            /\ intake[b].result.details \notin ProcessorErrors

(* C24: Reporting for a nonexistent salesperson. An authenticated monthly or yearly report
   request, for any period key, for a salesperson id that has no record returns total
   commission 0 and an empty sale list and no error; only a read the store itself fails
   is answered with the 'internal' error, as every failed store call is. *)
ReportedMissing(c) ==
    /\ report[c].pc = "done" /\ report[c].kind \in {"monthly", "yearly"}
    /\ report[c].auth # "" /\ report[c].salespersonId # "" /\ report[c].period # ""
    /\ ~SpDoc(db, report[c].salespersonId).exists

EmptyReport(c) ==
    /\ report[c].result.code = "ok"
    /\ report[c].result.totalCommission = 0
    /\ report[c].result.sales = {}

ReportNonexistentSalesperson ==
    \A c \in Calls :
        ReportedMissing(c) =>
            \/ EmptyReport(c)
            \/ report[c].reads = 0 /\ report[c].result.code = "internal"

\* Reports of both kinds for a salesperson without record have returned the empty report.
ReportNonexistentSalespersonWitness ==
    \E b, c \in Calls :
        /\ ReportedMissing(b) /\ report[b].kind = "monthly" /\ EmptyReport(b)
        /\ ReportedMissing(c) /\ report[c].kind = "yearly" /\ EmptyReport(c)

(* C25: Reporting result. For an existing salesperson and a period key P, the report
   returns the commission total the salesperson record stores for P when it is read (0
   when none is stored) and exactly the individual-sale records of that salesperson whose
   stored period field (saleMonth, saleYear) equals P. *)
ReportResult ==
    [][\A c \in Calls :
        LET s == report[c].salespersonId
            P == report[c].period
        IN  /\ (report[c].pc = "getSp" /\ report'[c].pc = "getSales") =>
                 /\ db.salespersons[s].exists
                 /\ report[c].kind = "monthly" =>
                       report'[c].result.totalCommission = db.salespersons[s].monthlyCommission[P]
                 /\ report[c].kind = "yearly" =>
                       report'[c].result.totalCommission = db.salespersons[s].yearlyCommission[P]
            /\ (report[c].pc = "getSales" /\ report'[c].result.code = "ok") =>
                 /\ report'[c].result.totalCommission = report[c].result.totalCommission
                 /\ \A x \in db.spSales :
                       x \in report'[c].result.sales <=>
                           /\ x.salesperson = s
                           /\ report[c].kind = "monthly" => x.saleMonth = P
                           /\ report[c].kind = "yearly" => x.saleYear = P
                 /\ report'[c].result.sales \subseteq db.spSales]_vars

\* A monthly report returned a stored total with the month's sale records, of which the
\* store holds others, and another one returned 0 for a month without total.
ReportResultWitness ==
    \E b, c \in Calls :
        /\ report[b].pc = "done" /\ report[b].result.code = "ok" /\ report[b].kind = "monthly"
        /\ report[b].result.totalCommission > 0 /\ report[b].result.sales # {}
        /\ \E x \in db.spSales :
              x.salesperson = report[b].salespersonId /\ x \notin report[b].result.sales
        /\ report[c].pc = "done" /\ report[c].result.code = "ok" /\ report[c].kind = "monthly"
        /\ SpDoc(db, report[c].salespersonId).exists /\ report[c].reads = 2
        /\ report[c].result.totalCommission = 0 /\ report[c].result.sales = {}

(* C26: Reporting requires only a caller identity. A report call without caller identity
   fails with the authentication error before any store read; a call with a caller
   identity is never refused for who the caller is. *)
ReportAuthentication ==
    \A c \in Calls :
        report[c].pc # "idle" =>
            /\ report[c].auth = "" =>
                  /\ report[c].pc = "done"
                  /\ report[c].result.code = "unauthenticated"
                  /\ report[c].reads = 0
            /\ report[c].auth # "" =>
                  report[c].result.code \notin {"unauthenticated", "permission-denied"}

\* A call without identity was refused and a call with one was answered from the store.
ReportAuthenticationWitness ==
    \E b, c \in Calls :
        /\ report[b].pc = "done" /\ report[b].auth = ""
        /\ report[b].result.code = "unauthenticated"
        /\ report[c].pc = "done" /\ report[c].auth # ""
        /\ report[c].result.code = "ok" /\ report[c].reads > 0

(* C27: Reporting is read-only. No step of a reporting call (monthly report, yearly
   report, salesperson data), whether the call succeeds or fails, changes a user,
   salesperson, sale or historical record. *)
ReportReadOnly == [][(report' # report) => (db' = db)]_vars

\* One reporting call has succeeded after reading the store and another one has failed.
ReportReadOnlyWitness ==
    \E b, c \in Calls :
        /\ report[b].pc = "done" /\ report[b].result.code = "ok" /\ report[b].reads > 0
        /\ report[c].pc = "done" /\ report[c].result.code = "internal"

(* C28: Unparseable bus payload. A bus message whose data is not valid JSON makes the
   handler throw, so that the message is redelivered, and changes no record; a message
   without data is handled as an empty notification: it is ignored without error and
   changes no record either. *)
UnparseableBusPayload ==
    [][\A i \in Deliveries :
        (variant = "bus" /\ pc'[i] # pc[i]) =>
            /\ notif'[i].data = "garbage" =>
                  db' = db /\ pc'[i] = "done" /\ resp'[i] = "nack" /\ err'[i] # "none"
            /\ notif'[i].data = "none" =>
                  db' = db /\ pc'[i] = "done" /\ resp'[i] = "ack" /\ err'[i] = "none"]_vars

\* One delivery carried data that is no JSON and another one no data.
UnparseableBusPayloadWitness ==
    \E i, j \in Deliveries :
        /\ variant = "bus"
        /\ pc[i] = "done" /\ notif[i].data = "garbage" /\ resp[i] = "nack"
        /\ pc[j] = "done" /\ notif[j].data = "none" /\ resp[j] = "ack"

(* C29: Eventual application under retry. When the notifier delivers a notification again
   after every 500 and the store fails finitely often, a completed-payment notification
   that references an existing user is eventually applied (the user is marked paid and,
   when the user references a salesperson, the salesperson is credited) and answered
   with 200. *)
Applied(i) ==
    /\ pc[i] = "done" /\ resp[i] = "200" /\ committed[i]
    /\ db.users[HttpUserId(notif[i])].paymentStatus = "paid"
    /\ db.users[HttpUserId(notif[i])].salesperson # "" =>
          db.salespersons[db.users[HttpUserId(notif[i])].salesperson].exists

EventualApplication ==
    \A i \in Deliveries : (pc[i] # "idle") ~> Applied(i)

(* C30: Commission conservation across rollover. In every reachable state, for each
   salesperson, the current-period earnings plus the earnings of the salesperson's
   historical payout records equal the commissions of all sale records created for the
   salesperson (on top of what the salesperson had earned before the first of them), and
   likewise the sale counts, whatever the interleaving of reconciliations and rollover
   runs. *)
RECURSIVE SaleCommissions(_, _)
SaleCommissions(q, s) ==
    IF q = <<>> THEN 0
    ELSE (IF Head(q).sp = s THEN Head(q).commission ELSE 0) + SaleCommissions(Tail(q), s)

SaleRecords(q, s) == Len(SelectSeq(q, LAMBDA x : x.sp = s))

ArchivedEarnings(d, s) == SumOf([m \in Months |-> d.historical[s][m].earnings], Months)

ArchivedCustomers(d, s) == SumOf([m \in Months |-> d.historical[s][m].totalCustomers], Months)

CommissionConservation ==
    \A s \in SPs :
        /\ db.salespersons[s].currentMonthEarnings + ArchivedEarnings(db, s)
              = InitDb(variant).salespersons[s].currentMonthEarnings + SaleCommissions(db.sales, s)
        /\ db.salespersons[s].totalSales + ArchivedCustomers(db, s)
              = InitDb(variant).salespersons[s].totalSales + SaleRecords(db.sales, s)

(* C31: Counter/audit agreement. In every state with no rollover in flight, for each
   salesperson, the current-period sale count is the number of sale records created for
   the salesperson since the rollover that last reset it, and the current-period
   earnings are the sum of the commissions of those records (a salesperson never reset
   carries what it had at the start on top). *)
SinceReset(s) == {k \in 1..Len(db.sales) : k > resetAt[s] /\ db.sales[k].sp = s}

Carried(s) == IF resetAt[s] = -1 THEN InitDb(variant).salespersons[s] ELSE NoSp

CounterAuditAgreement ==
    rpc = "idle" =>
        \A s \in SPs :
            /\ db.salespersons[s].totalSales
                  = Carried(s).totalSales + Cardinality(SinceReset(s))
            /\ db.salespersons[s].currentMonthEarnings
                  = Carried(s).currentMonthEarnings
                    + SumOf([k \in SinceReset(s) |-> db.sales[k].commission], SinceReset(s))

\* A salesperson was reset between two of its sales.
CounterAuditAgreementWitness ==
    /\ rpc = "idle"
    /\ \E s \in SPs :
          /\ resetAt[s] >= 1
          /\ \E k \in 1..resetAt[s] : db.sales[k].sp = s
          /\ SinceReset(s) # {}
          /\ db.salespersons[s].currentMonthEarnings > 0

(* C32: Reconciliation and reporting share one wire contract. Every sale record that
   reconciliation has created for salesperson S in period P is in the sale list the
   monthly report returns for (S, P), and the commission that reconciliation has credited
   to S in P is included in the total the report returns for (S, P). *)
CreditedIn(s, P) ==
    SumOf([i \in Deliveries |->
              IF committed[i] /\ CreditedSp(i) = s /\ month = P THEN CommissionOf(notif[i]) ELSE 0],
          Deliveries)

WireContract ==
    \A s \in SPs, P \in Months :
        /\ \A k \in 1..Len(db.sales) :
              (db.sales[k].sp = s /\ db.sales[k].month = P) =>
                  \E x \in PeriodSales(db, s, "monthly", P) :
                      x.orderId = db.sales[k].orderId /\ x.commissionAmount = db.sales[k].commission
        /\ PeriodCommission(db.salespersons[s], "monthly", P)
              >= PeriodCommission(InitDb(variant).salespersons[s], "monthly", P) + CreditedIn(s, P)

(* C33: One credit per order across event types. Notifications of different mutating
   event types (order approved, order completed, capture completed) that refer to one
   order credit the salesperson once between them: no two sale records carry the same
   order id, and no two committed reconciliations of different event types do. *)
SameOrder(i, j) ==
    /\ i # j
    /\ notif[i].id # "" /\ notif[i].id = notif[j].id
    /\ notif[i].type \in PaymentEvents /\ notif[j].type \in PaymentEvents
    /\ notif[i].type # notif[j].type

OneCreditPerOrder ==
    /\ \A i, j \in Deliveries :
          (SameOrder(i, j) /\ CreditedSp(i) # "") => ~(committed[i] /\ committed[j])
    /\ \A k, l \in 1..Len(db.sales) :
          (k # l /\ db.sales[k].orderId = db.sales[l].orderId) =>
              \E i, j \in Deliveries :
                  /\ i # j /\ committed[i] /\ committed[j]
                  /\ notif[i] = notif[j] /\ notif[i].id = db.sales[k].orderId

(* C34: Transaction retries are invisible. When the store runs the reconciliation
   transaction body again because a concurrent writer conflicted, the abandoned run
   leaves the store as it was, and the commit of that delivery adds the commission once
   and, where the deployment keeps them (http), the sale count once and one sale record,
   however often the body ran. *)
RetriesInvisible ==
    [][\A i \in Deliveries :
        /\ (attempts[i] >= 1 /\ attempts'[i] > attempts[i]) => db' = db
        /\ (Commits(i) /\ attempts[i] > 1 /\ CreditedSp(i) \in SPs) =>
              LET s == CreditedSp(i) IN
              /\ Total(db', s) = Total(db, s) + CommissionOf(notif[i])
              /\ \A t \in SPs \ {s} : db'.salespersons[t] = db.salespersons[t]
              /\ variant = "http" =>
                    /\ Count(db', s) = Count(db, s) + 1
                    /\ Len(db'.sales) = Len(db.sales) + 1
                    /\ SubSeq(db'.sales, 1, Len(db.sales)) = db.sales
                    /\ db'.sales[Len(db'.sales)].orderId = notif[i].id
              /\ variant = "bus" => db'.sales = db.sales]_vars

\* Reconciliations of both deployments have committed after running their body twice.
RetriesInvisibleWitness ==
    \E i \in Deliveries :
        committed[i] /\ attempts[i] > 1 /\ CreditedSp(i) \in SPs /\ resp[i] \in {"200", "ack"}

(* C35: Aggregate agreement in the map-based deployment. For every salesperson record,
   which reconciliation created, after any sequence of reconciliations the cumulative
   commission is the sum of the per-month entries and the sum of the per-year entries,
   and each per-year entry is the sum of the per-month entries of its year. *)
MonthsOf(y) == {m \in Months : YearOf(m) = y}

AggregateAgreement ==
    \A s \in SPs :
        LET doc == db.salespersons[s] IN
        doc.exists =>
            /\ doc.totalCommission = SumOf(doc.monthlyCommission, Months)
            /\ doc.totalCommission = SumOf(doc.yearlyCommission, Years)
            /\ \A y \in Years : doc.yearlyCommission[y] = SumOf(doc.monthlyCommission, MonthsOf(y))

\* A salesperson was credited in months of two different years.
AggregateAgreementWitness ==
    \E s \in SPs :
        /\ db.salespersons[s].exists
        /\ db.salespersons[s].yearlyCommission["2026"] > 0
        /\ db.salespersons[s].yearlyCommission["2027"] > 0
        /\ \E i \in Deliveries : committed[i] /\ txMonth[i] # month

(* C36: Membership never regresses. Once a user's payment status is paid, no step of any
   notification (denied, cancelled and expired events included), rollover run or reporting
   call changes it to anything else, and no step decreases the stored membership expiry. *)
IsPaid(u) == db.users[u].exists /\ db.users[u].paymentStatus = "paid"

MembershipNeverRegresses ==
    [][\A u \in Users :
        IsPaid(u) =>
            /\ db'.users[u].exists
            /\ db'.users[u].paymentStatus = "paid"
            /\ db'.users[u].membershipExpiry >= db.users[u].membershipExpiry]_vars

(* C37: Reconciliation frame. The commit of a reconciliation for user U attributed to
   salesperson S changes only U's user record and S's salesperson record and adds one sale
   record under S: every other user record, every other salesperson record, every sale
   record that existed and every historical payout record stay as they were. A step of
   the monthly rollover changes no user record and no sale record. *)
RolloverStep == rpc' # rpc \/ runs' # runs

ReconciliationFrame ==
    [][/\ \A i \in Deliveries :
            Commits(i) =>
                /\ \A u \in Users \ {UserIdOf(i)} : db'.users[u] = db.users[u]
                /\ \A s \in SPs \ {CreditedSp(i)} : db'.salespersons[s] = db.salespersons[s]
                /\ db'.historical = db.historical
                /\ db'.monthlyPayouts = db.monthlyPayouts
                /\ IF CreditedSp(i) \in SPs
                   THEN /\ Len(db'.sales) = Len(db.sales) + 1
                        /\ SubSeq(db'.sales, 1, Len(db.sales)) = db.sales
                        /\ db'.sales[Len(db'.sales)].sp = CreditedSp(i)
                   ELSE db'.sales = db.sales
       /\ RolloverStep => db'.users = db.users /\ db'.sales = db.sales]_vars

\* Two reconciliations were committed, the second adding its sale record after the
\* first's, and a rollover run has archived a salesperson.
ReconciliationFrameWitness ==
    /\ Len(db.sales) >= 2
    /\ \E i \in Deliveries : committed[i] /\ db.users[UserIdOf(i)].paymentStatus = "paid"
    /\ \E k \in 1..Len(runs) : runs[k] = "ok"
    /\ \E s \in SPs : \E m \in Months : db.historical[s][m].exists

====
